---------------------------- MODULE Spec2Model ----------------------------
(* A model of the AminoVerse browser client: the chat/query orchestrator     *)
(* (AminoVerseUI.handleSearch and its follow-up fetches), the interactions   *)
(* response normalizer (handleInteractionsResponse), the three visualization *)
(* panes' load/error states, and the service-status panel.                   *)
(*                                                                           *)
(* JavaScript values are tagged records ([t |-> "null"], [t |-> "str", ...]) *)
(* so that truthiness, typeof and Array.isArray are computed as the code     *)
(* computes them.  A JavaScript string is a sequence of chunks: a chunk is   *)
(* either a separator/whitespace character (" ", "-", ".") or a run of text  *)
(* without separators, so trim() and split() act on the sequence.  Scores    *)
(* are integers in thousandths (0.999 is 999).                               *)
EXTENDS Integers, Sequences, FiniteSets, TLC

VARIABLES
    query,                \* text of the input box (chunk sequence)
    messages,             \* chat history, a sequence of [type, content]
    activeProtein,        \* JS value: Null or the protein id string
    proteinData,          \* JS value: Null or response.data
    structureData,        \* JS value
    interactionsData,     \* JS value (an array unless a reply put something else)
    knowledgeGraphData,   \* JS value
    isLoading,            \* BOOLEAN
    followUpSuggestions,  \* sequence of chunk sequences
    activeTab,            \* 0 .. 2
    search,               \* activation record of the running handleSearch
    pending,              \* settled response the awaiting continuation will
                          \* read; in the race, the promises left behind;
                          \* for the status checker, the checks that have
                          \* fallen back to /status
    viewerState,          \* state of the mounted ProteinStructureVisualizer
    servicesStatus,       \* ServiceStatusPanel: payload held by the panel
    statusLoading,        \* ServiceStatusPanel: isLoading
    isStatusPanelVisible, \* AminoVerseUI: the panel is shown
    statusChecks,         \* checkServices calls: number issued, those in
                          \* flight, the one that returned last, its payload
    sessionId,            \* AminoVerseUI: the uuid generated at mount
    graphPane,            \* the mounted graph pane and its layout widget,
                          \* or the elements the network pane computed
    lastOp                \* the handler or continuation that ran last (history)

vars == <<query, messages, activeProtein, proteinData, structureData,
          interactionsData, knowledgeGraphData, isLoading, followUpSuggestions,
          activeTab, search, pending, viewerState, servicesStatus,
          statusLoading, isStatusPanelVisible, statusChecks, sessionId,
          graphPane, lastOp>>

-----------------------------------------------------------------------------
(* JavaScript values *)

Null == [t |-> "null"]
Undef == [t |-> "undef"]
Str(s) == [t |-> "str", s |-> s]
Num(n) == [t |-> "num", n |-> n]
NaN == [t |-> "nan"]
Bool(b) == [t |-> "bool", b |-> b]
Arr(a) == [t |-> "arr", items |-> a]
Obj(f) == [t |-> "obj", f |-> f]

\* A one-chunk string literal.
S(c) == Str(<<c>>)

\* The empty object {} (a record with no field).
EmptyObj == Obj(<<>>)

\* JavaScript truthiness (ToBoolean).
Truthy(v) ==
    CASE v.t = "null" -> FALSE
      [] v.t = "undef" -> FALSE
      [] v.t = "nan" -> FALSE
      [] v.t = "str" -> v.s # <<>>
      [] v.t = "num" -> v.n # 0
      [] v.t = "bool" -> v.b
      [] OTHER -> TRUE

\* Property read v.k.  Reading a property of null or undefined throws, which
\* the callers test with Nullish before they read; every other value without
\* the property yields undefined.
Nullish(v) == v.t \in {"null", "undef"}

Get(v, k) ==
    IF v.t = "obj" /\ k \in DOMAIN v.f THEN v.f[k] ELSE Undef

IsArray(v) == v.t = "arr"

\* a || b
Or(a, b) == IF Truthy(a) THEN a ELSE b

-----------------------------------------------------------------------------
(* Strings *)

\* Whitespace chunks, as String.prototype.trim sees them.
WhiteSpace == {" ", "\t"}

RECURSIVE TrimStart(_)
TrimStart(s) ==
    IF s # <<>> /\ Head(s) \in WhiteSpace THEN TrimStart(Tail(s)) ELSE s

RECURSIVE TrimEnd(_)
TrimEnd(s) ==
    IF s # <<>> /\ s[Len(s)] \in WhiteSpace
    THEN TrimEnd(SubSeq(s, 1, Len(s) - 1))
    ELSE s

\* query.trim()
Trim(s) == TrimEnd(TrimStart(s))

\* toUpperCase / toLowerCase of one chunk, for the chunks the model uses.
UpperChunk(c) ==
    CASE c = "tp53" -> "TP53"
      [] c = "Tp53" -> "TP53"
      [] c = "q9" -> "Q9"
      [] OTHER -> c

ToUpperCase(s) == [i \in DOMAIN s |-> UpperChunk(s[i])]

\* A string whose text is the decimal numeral of n thousandths ("0.9").
NumStr(n) == [t |-> "str", s |-> <<"numeral">>, num |-> n]

\* A string whose text is JSON.stringify(v).
JsonStr(v) == [t |-> "str", s |-> <<"json">>, json |-> v]

\* parseFloat(v): a number for a number or a numeral string, NaN otherwise.
ParseFloat(v) ==
    CASE v.t = "num" -> v
      [] v.t = "str" /\ "num" \in DOMAIN v -> Num(v.num)
      [] OTHER -> NaN

\* JSON.parse(v) for a string v: the encoded value, or a SyntaxError.
JSONParse(v) ==
    IF "json" \in DOMAIN v
    THEN [threw |-> FALSE, value |-> v.json]
    ELSE [threw |-> TRUE, value |-> Undef]

-----------------------------------------------------------------------------
(* handleInteractionsResponse: the interactions response normalizer *)

InteractionRecord(id, name, score, evidence, generated) ==
    Obj([protein_id |-> id, protein_name |-> name, score |-> score,
         evidence |-> evidence, is_generated |-> generated])

\* Fallback used when proteinId is P04637 / TP53.
TP53Fallback ==
    << InteractionRecord(S("Q00987"), S("MDM2 (E3 ubiquitin-protein ligase)"),
                         Num(999), S("experimental, text mining, database"), Bool(FALSE)),
       InteractionRecord(S("Q13625"), S("ASPP2 (TP53BP2)"),
                         Num(924), S("experimental, text mining"), Bool(FALSE)),
       InteractionRecord(S("Q00653"), S("NFKB2 (Nuclear factor NF-kappa-B)"),
                         Num(876), S("experimental, text mining"), Bool(FALSE)),
       InteractionRecord(S("P38936"), S("CDKN1A (p21)"),
                         Num(912), S("experimental, text mining"), Bool(FALSE)) >>

\* Fallback used for any other protein.
GenericFallback ==
    << InteractionRecord(S("INTERACT_1"), S("Interacting Protein 1"),
                         Num(850), S("computational prediction"), Bool(TRUE)),
       InteractionRecord(S("INTERACT_2"), S("Interacting Protein 2"),
                         Num(750), S("text mining"), Bool(TRUE)),
       InteractionRecord(S("INTERACT_3"), S("Interacting Protein 3"),
                         Num(650), S("experimental"), Bool(TRUE)) >>

\* Fallback of the catch block.
fallbackData ==
    << InteractionRecord(S("P01106"), S("MYC (Proto-oncogene c-Myc)"),
                         Num(800), S("text mining, database"), Bool(TRUE)),
       InteractionRecord(S("P38398"), S("BRCA1 (Breast Cancer Type 1)"),
                         Num(700), S("text mining"), Bool(TRUE)),
       InteractionRecord(S("P49841"), S("GSK3B (Glycogen synthase kinase-3 beta)"),
                         Num(750), S("database"), Bool(TRUE)) >>

\* Property order of the objects of the model (Object.values order).
FieldOrder ==
    <<"interactions", "knowledge_graph", "results", "partners", "items",
      "count", "protein", "nodes", "edges">>

\* Object.values(v).filter(val => Array.isArray(val))
PotentialArrays(v) ==
    LET keep(k) == k \in DOMAIN v.f /\ IsArray(v.f[k])
    IN  [i \in 1 .. Cardinality({j \in DOMAIN FieldOrder : keep(FieldOrder[j])}) |->
            v.f[FieldOrder[CHOOSE j \in DOMAIN FieldOrder :
                    /\ keep(FieldOrder[j])
                    /\ Cardinality({h \in 1 .. j : keep(FieldOrder[h])}) = i]]]

\* potentialArrays.reduce((prev, current) =>
\*     (current.length > prev.length) ? current : prev, [])
RECURSIVE LargestFrom(_, _)
LargestFrom(arrays, prev) ==
    IF arrays = <<>> THEN prev
    ELSE LET current == Head(arrays).items
         IN  LargestFrom(Tail(arrays),
                         IF Len(current) > Len(prev) THEN current ELSE prev)

\* Mutation: the first array-valued field is taken, whatever its length.
largestArrayFirstFound(response) ==
    IF PotentialArrays(response) = <<>> THEN <<>>
    ELSE Head(PotentialArrays(response)).items

largestArray(response) == LargestFrom(PotentialArrays(response), <<>>)

\* The interactions of a value in "Format 1" or "Format 2", or none.
InteractionsOf(v) ==
    IF Truthy(v) /\ Truthy(Get(v, "interactions")) /\ IsArray(Get(v, "interactions"))
    THEN Get(v, "interactions").items
    ELSE IF Truthy(v) /\ IsArray(v) THEN v.items
    ELSE <<>>

\* The four response formats: processedInteractions before the fallback.
processedInteractions(response) ==
    IF Truthy(response) /\ Truthy(Get(response, "interactions"))
                        /\ IsArray(Get(response, "interactions"))
    THEN Get(response, "interactions").items
    ELSE IF Truthy(response) /\ IsArray(response)
    THEN response.items
    ELSE IF response.t = "str"
    THEN LET parsed == JSONParse(response)
         IN  IF parsed.threw THEN <<>> ELSE InteractionsOf(parsed.value)
    ELSE IF Truthy(response) /\ response.t = "obj"
    THEN largestArray(response)
    ELSE <<>>

\* The placeholder list chosen from the protein id; proteinId.toUpperCase()
\* throws a TypeError when the id is not a string.
FallbackFor(proteinId) ==
    IF proteinId = S("P04637")
    THEN [threw |-> FALSE, items |-> TP53Fallback]
    ELSE IF proteinId.t # "str"
    THEN [threw |-> TRUE, items |-> <<>>]
    ELSE IF ToUpperCase(proteinId.s) = <<"TP53">>
    THEN [threw |-> FALSE, items |-> TP53Fallback]
    ELSE [threw |-> FALSE, items |-> GenericFallback]

\* The `unknown-<random>` id given to a record without an id.
UnknownId == S("unknown-rnd")

\* One element of validatedInteractions.
validated(interaction) ==
    LET raw == Get(interaction, "score")
        parsed == ParseFloat(raw)
    IN  InteractionRecord(
            Or(Get(interaction, "protein_id"), Or(Get(interaction, "id"), UnknownId)),
            Or(Get(interaction, "protein_name"),
               Or(Get(interaction, "name"), S("Unknown Protein"))),
            IF raw.t \in {"num", "nan"} THEN raw ELSE Or(parsed, Num(500)),
            Or(Get(interaction, "evidence"),
               Or(Get(interaction, "source"), S("Not specified"))),
            Bool(Truthy(Get(interaction, "is_generated"))))

\* processedInteractions.map(...): reading a field of a null or undefined
\* element throws a TypeError.
validatedInteractions(items) ==
    IF \E i \in DOMAIN items : Nullish(items[i])
    THEN [threw |-> TRUE, items |-> <<>>]
    ELSE [threw |-> FALSE, items |-> [i \in DOMAIN items |-> validated(items[i])]]

\* An outcome of an HTTP request: the response body, or a rejection.
Resolved(v) == [ok |-> TRUE, value |-> v]
Rejected == [ok |-> FALSE, value |-> Undef]

\* What one run of handleInteractionsResponse leaves behind: which setters it
\* called, with what, and whether an exception left it.
Effect(setData, data, setKg, kg, setTab, escaped) ==
    [setData |-> setData, interactionsData |-> data,
     setKg |-> setKg, knowledgeGraphData |-> kg,
     setTab |-> setTab, escaped |-> escaped]

\* The try block of handleInteractionsResponse.
TryInteractions(proteinId, outcome) ==
    IF ~outcome.ok THEN [threw |-> TRUE, effect |-> Undef]
    ELSE
    LET response == outcome.value
        found == processedInteractions(response)
        fb == IF Len(found) = 0 THEN FallbackFor(proteinId)
              ELSE [threw |-> FALSE, items |-> found]
        valid == validatedInteractions(fb.items)
        kg == Get(response, "knowledge_graph")
    IN  IF fb.threw \/ valid.threw
        THEN [threw |-> TRUE, effect |-> Undef]
        ELSE [threw |-> FALSE,
              effect |-> Effect(TRUE, Arr(valid.items),
                                Truthy(response) /\ Truthy(kg), kg, TRUE, FALSE)]

\* The catch block of handleInteractionsResponse.
CatchInteractions == Effect(TRUE, Arr(fallbackData), FALSE, Undef, TRUE, FALSE)

\* Mutation: the normalizer without its catch block; what the try block throws
\* leaves the function.
handleInteractionsResponseNoCatch(proteinId, outcome) ==
    LET body == TryInteractions(proteinId, outcome)
    IN  IF body.threw THEN Effect(FALSE, Undef, FALSE, Undef, FALSE, TRUE)
        ELSE body.effect

\* handleInteractionsResponse(proteinId), once its request has settled.
handleInteractionsResponse(proteinId, outcome) ==
    LET body == TryInteractions(proteinId, outcome)
    IN  IF body.threw THEN CatchInteractions ELSE body.effect

-----------------------------------------------------------------------------
(* ProteinStructureVisualizer: the effect that derives viewerState *)

\* s.split(sep)[0]: the text before the first separator chunk.
RECURSIVE SplitFirst(_, _)
SplitFirst(s, sep) ==
    IF s = <<>> \/ Head(s) = sep THEN <<>>
    ELSE <<Head(s)>> \o SplitFirst(Tail(s), sep)

\* id.split('-')[0].split('.')[0]; a TypeError when id is not a string.
cleanId(id) ==
    IF id.t # "str" THEN [threw |-> TRUE, s |-> <<>>]
    ELSE [threw |-> FALSE, s |-> SplitFirst(SplitFirst(id.s, "-"), ".")]

ViewerState(loading, error, viewerUrl) ==
    [loading |-> loading, error |-> error, viewerUrl |-> viewerUrl]

\* useState initial value of the pane.
ViewerInitial == ViewerState(TRUE, Null, Null)

AlphaFoldUrl(id) == Str(<<"https://alphafold.ebi.ac.uk/entry/">> \o id)
RcsbUrl(id) == Str(<<"https://www.rcsb.org/3d-view/">> \o id \o <<"/">>)

\* The text a template literal gives a value.
TemplateText(v) == IF v.t = "str" THEN v.s ELSE <<"[", v.t, "]">>

\* The try block of the effect, for a truthy proteinId and structure.
TryViewer(proteinId, structure) ==
    LET done(st) == [threw |-> FALSE, state |-> st]
        thrown == [threw |-> TRUE, state |-> ViewerInitial]
        af == Or(Get(structure, "alphafold_id"), Get(structure, "uniprot_id"))
    IN  IF Truthy(Get(structure, "viewer_url"))
        THEN done(ViewerState(FALSE, Null, Get(structure, "viewer_url")))
        ELSE IF Truthy(Get(structure, "pdb_id"))
        THEN done(ViewerState(FALSE, Null,
                              RcsbUrl(TemplateText(Get(structure, "pdb_id")))))
        ELSE IF Truthy(af)
        THEN IF cleanId(af).threw THEN thrown
             ELSE done(ViewerState(FALSE, Null, AlphaFoldUrl(cleanId(af).s)))
        ELSE IF Truthy(proteinId)
        THEN IF cleanId(proteinId).threw THEN thrown
             ELSE done(ViewerState(FALSE, Null, AlphaFoldUrl(cleanId(proteinId).s)))
        ELSE IF Get(structure, "status") = S("unavailable")
        THEN done(ViewerState(FALSE,
                    Or(Get(structure, "message"),
                       S("No structure data available for this protein")),
                    Null))
        ELSE done(ViewerState(FALSE,
                    S("Could not determine how to display this protein structure"),
                    Null))

\* The catch block of the effect: a fallback URL from the protein id, or the
\* error state when that throws too.
CatchViewer(proteinId) ==
    IF cleanId(proteinId).threw
    THEN ViewerState(FALSE, S("Error processing structure"), Null)
    ELSE ViewerState(FALSE, Null, AlphaFoldUrl(cleanId(proteinId).s))

\* The state the effect on [structureData, proteinId] leaves the pane in.
ViewerEffect(proteinId, structure) ==
    IF ~Truthy(proteinId) THEN ViewerState(FALSE, Null, Null)
    ELSE IF ~Truthy(structure) THEN ViewerState(TRUE, Null, Null)
    ELSE LET body == TryViewer(proteinId, structure)
         IN  IF body.threw THEN CatchViewer(proteinId) ELSE body.state

\* What the pane renders: the branch of the component's return chain.
ViewerRender(proteinId, state) ==
    IF ~Truthy(proteinId) THEN "select"
    ELSE IF state.loading THEN "loading"
    ELSE IF Truthy(state.error) THEN "error"
    ELSE IF Truthy(state.viewerUrl) THEN "viewer"
    ELSE "fallback"

-----------------------------------------------------------------------------
(* KnowledgeGraphVisualizer and InteractionNetworkVisualizer: load states *)

VisualState(loading, error) == [loading |-> loading, error |-> error]

\* The elements memo of the knowledge-graph pane throws when a node or an
\* edge of a well-shaped graph is null (node.id, edge.type are read).
KGMemoThrows(entityId, graphData) ==
    /\ Truthy(graphData) /\ Truthy(entityId)
    /\ IsArray(Get(graphData, "nodes")) /\ IsArray(Get(graphData, "edges"))
    /\ \/ \E i \in DOMAIN Get(graphData, "nodes").items :
              Nullish(Get(graphData, "nodes").items[i])
       \/ \E i \in DOMAIN Get(graphData, "edges").items :
              Nullish(Get(graphData, "edges").items[i])

\* visualState of the mounted knowledge-graph pane once its memo and its
\* effect on [entityId, graphData] have run.
KGVisualState(entityId, graphData) ==
    VisualState(IF Truthy(entityId) THEN ~Truthy(graphData) ELSE TRUE,
                IF KGMemoThrows(entityId, graphData)
                THEN S("Error processing knowledge graph data") ELSE Null)

\* Number of cytoscape elements the knowledge-graph pane builds.
KGElementCount(entityId, graphData) ==
    IF \/ ~Truthy(graphData) \/ ~Truthy(entityId)
       \/ ~IsArray(Get(graphData, "nodes")) \/ ~IsArray(Get(graphData, "edges"))
       \/ KGMemoThrows(entityId, graphData)
    THEN 0
    ELSE Len(Get(graphData, "nodes").items) + Len(Get(graphData, "edges").items)

\* The branch of the knowledge-graph pane's return chain.
KGRender(entityId, graphData) ==
    LET vs == KGVisualState(entityId, graphData)
    IN  IF ~Truthy(entityId) THEN "select"
        ELSE IF vs.loading THEN "loading"
        ELSE IF Truthy(vs.error) THEN "error"
        ELSE IF KGElementCount(entityId, graphData) = 0 THEN "empty"
        ELSE "graph"

\* The elements memo of the interaction pane returns [] at once for no
\* interactions, an empty list or no protein.
NetworkMemoSkips(proteinId, interactions) ==
    \/ ~Truthy(interactions)
    \/ (IsArray(interactions) /\ Len(interactions.items) = 0)
    \/ ~Truthy(proteinId)

\* ... and throws when proteinId.split, interactions.forEach or
\* interactorId.split is not a function.
NetworkMemoThrows(proteinId, interactions) ==
    /\ ~NetworkMemoSkips(proteinId, interactions)
    /\ \/ proteinId.t # "str"
       \/ ~IsArray(interactions)
       \/ \E i \in DOMAIN interactions.items :
              LET it == interactions.items[i]
                  id == Or(Get(it, "protein_id"),
                           Or(Get(it, "id"), Get(it, "interactor_id")))
              IN  /\ Truthy(it) /\ Truthy(id) /\ id.t # "str"
                  /\ ~Truthy(Get(it, "protein_name")) /\ ~Truthy(Get(it, "name"))

\* visualState of the mounted interaction pane.
NetworkVisualState(proteinId, interactions) ==
    VisualState(IF Truthy(proteinId) THEN ~Truthy(interactions) ELSE TRUE,
                IF NetworkMemoThrows(proteinId, interactions)
                THEN S("Error processing network data") ELSE Null)

\* The branch of the interaction pane's return chain; the elements hold the
\* main node whenever the memo neither skips nor throws.
NetworkRender(proteinId, interactions) ==
    LET vs == NetworkVisualState(proteinId, interactions)
    IN  IF ~Truthy(proteinId) THEN "select"
        ELSE IF vs.loading THEN "loading"
        ELSE IF Truthy(vs.error) THEN "error"
        ELSE IF NetworkMemoSkips(proteinId, interactions) THEN "empty"
        ELSE "network"

-----------------------------------------------------------------------------
(* Bounds and inputs of the chat machine *)

\* Number of searches a run may start.
MaxSearches == 2

Tabs == 0 .. 2

\* Protein ids a chat reply may carry.
ProteinIds == {S("P04637"), S("Q9")}

\* Texts the user may type (onChange): empty, blank, and real queries.
TypedQueries ==
    { <<>>, <<" ", "\t">>, <<"tp53">>, <<" ", "show interactions of tp53", " ">> }

\* Chunks whose lower-cased text includes 'interaction' or 'network'.
InteractionChunks == {"show interactions of tp53", "Show interactions for"}

\* Chunks whose lower-cased text includes 'graph' (so also 'knowledge graph').
GraphChunks == {"Show me the knowledge graph for"}

\* searchQuery.toLowerCase().includes(word) for the words of a table.
Mentions(q, chunks) == \E i \in DOMAIN q : q[i] \in chunks

\* A property that may be absent: no field, or field k with a value of vals.
Opt(k, vals) == {<<>>} \cup {k :> v : v \in vals}

SampleInteraction ==
    Obj([protein_id |-> S("Q00987"), protein_name |-> S("MDM2"),
         score |-> Num(999), evidence |-> S("experimental")])

SampleStructure == Obj([pdb_id |-> S("1TUP")])

SampleGraph ==
    Obj([nodes |-> Arr(<<Obj([id |-> S("P04637"), type |-> S("protein")])>>),
         edges |-> Arr(<<>>)])

\* Chat replies without protein data.
PlainReplies ==
    {Null, Obj([data |-> EmptyObj]),
     Obj([message |-> S("reply"), data |-> Obj([structure |-> SampleStructure]),
          visualization_type |-> S("interactions"),
          visualization_data |-> Arr(<<SampleInteraction>>)])}
    \cup {Obj([message |-> S("reply")] @@ f) :
            f \in Opt("follow_up_suggestions", {Arr(<<>>), Arr(<<S("Tell me more")>>)})}

\* Chat replies with protein data: the id alone, or with an embedded structure
\* or interactions list, and optionally visualization data.
ProteinShapes ==
    {<<d, <<>> >> : d \in {<<>>, [structure |-> SampleStructure],
                           [interactions |-> Arr(<<>>)],
                           [interactions |-> Arr(<<SampleInteraction>>)]}}
    \cup
    {<< <<>>, v>> : v \in {[visualization_type |-> S("interactions"),
                           visualization_data |-> Arr(<<SampleInteraction>>)],
                          [visualization_type |-> S("interactions"),
                           visualization_data |-> Arr(<<>>)],
                          [visualization_type |-> S("knowledge_graph"),
                           visualization_data |-> SampleGraph]}}

ProteinReplies ==
    {Obj([message |-> S("reply"), data |-> Obj(("id" :> id) @@ p[1])] @@ p[2]) :
        id \in ProteinIds, p \in ProteinShapes}

\* Outcomes of POST /api/chat.
ChatOutcomes == {Rejected} \cup {Resolved(r) : r \in PlainReplies \cup ProteinReplies}

\* Outcomes of GET /api/protein/<id>/structure.
StructureOutcomes == {Rejected, Resolved(SampleStructure)}

\* Outcomes of GET /api/protein/<id>/interactions seen by the chat machine.
InteractionOutcomes ==
    {Rejected, Resolved(Null), Resolved(Arr(<<>>)), Resolved(Arr(<<Null>>)),
     Resolved(Arr(<<SampleInteraction>>)),
     Resolved(Obj([interactions |-> Arr(<<SampleInteraction>>),
                   knowledge_graph |-> SampleGraph]))}

\* Outcomes of the knowledge-graph race: the request settles first, or the
\* 15 s timer fires first.
TimedOut == [ok |-> FALSE, value |-> S("Knowledge graph request timed out")]

KnowledgeGraphOutcomes ==
    {Rejected, TimedOut, Resolved(SampleGraph), Resolved(Null),
     Resolved(Obj([nodes |-> Arr(<<>>)]))}

-----------------------------------------------------------------------------
(* AminoVerseUI: state, handleSearch and its continuations *)

Message(type, content) == [type |-> type, content |-> content]

WelcomeMessage ==
    Message("system",
            S("Welcome to AminoVerse! I'm your protein research assistant. Try searching for a protein like 'TP53' to get started."))

NotFoundText == S("I couldn't find specific information about your query.")

ErrorText ==
    S("Sorry, I encountered an error processing your request. Please try again later.")

\* Suggestions built from response.data.id.
ProteinSuggestions(id) ==
    << <<"How does", " ">> \o TemplateText(id) \o <<" ", "relate to cancer?">>,
       <<"What drugs target", " ">> \o TemplateText(id) \o <<"?">>,
       <<"Show me the knowledge graph for", " ">> \o TemplateText(id),
       <<"Show interactions for", " ">> \o TemplateText(id) >>

DefaultSuggestions ==
    << <<"Tell me about TP53">>, <<"What is a protein?">>,
       <<"Show me the structure of BRCA1">> >>

ErrorSuggestions ==
    << <<"Try searching for TP53">>, <<"What is a protein?">>, <<"Show structures">> >>

\* The activation record of handleSearch: where it waits (pc), its argument,
\* the chat reply it holds, the requests it has issued, how its structure and
\* knowledge-graph fetches ended and how the search itself ended (kept until
\* the next search starts), and the number of searches started so far.
\* sessions records the session_id of every chat request sent so far.
\* origin records, for the data of each pane, the protein id it was obtained
\* for and the call that delivered it (Null for the values set at mount or
\* after a failure).
NoOrigin ==
    [structureData |-> Null, interactionsData |-> Null, knowledgeGraphData |-> Null]

From(id, call) == [for |-> id, by |-> call]

IdleSearch(count) ==
    [pc |-> "idle", searchQuery |-> <<>>, response |-> Null, calls |-> <<>>,
     structureFetch |-> "none", kgFetch |-> "none", result |-> "none",
     count |-> count, origin |-> NoOrigin, sessions |-> {}]

\* The component state as one record, for the code that runs between awaits.
UI ==
    [query |-> query, messages |-> messages, activeProtein |-> activeProtein,
     proteinData |-> proteinData, structureData |-> structureData,
     interactionsData |-> interactionsData,
     knowledgeGraphData |-> knowledgeGraphData, isLoading |-> isLoading,
     followUpSuggestions |-> followUpSuggestions, activeTab |-> activeTab,
     search |-> search, sessionId |-> sessionId]

\* The pane mounted in the structure tab; nothing is mounted on other tabs.
Unmounted == Null

MountedViewer(u) ==
    IF u.activeTab = 0 THEN ViewerEffect(u.activeProtein, u.structureData)
    ELSE Unmounted

\* The component state a handler produced, and the panes re-rendered.
CommitUI(u, op) ==
    /\ query' = u.query
    /\ messages' = u.messages
    /\ activeProtein' = u.activeProtein
    /\ proteinData' = u.proteinData
    /\ structureData' = u.structureData
    /\ interactionsData' = u.interactionsData
    /\ knowledgeGraphData' = u.knowledgeGraphData
    /\ isLoading' = u.isLoading
    /\ followUpSuggestions' = u.followUpSuggestions
    /\ activeTab' = u.activeTab
    /\ search' = u.search
    /\ sessionId' = u.sessionId
    /\ viewerState' = MountedViewer(u)
    /\ lastOp' = op

\* Commit the state a handler produced and re-render the panes.
Commit(u, op) ==
    /\ CommitUI(u, op)
    /\ UNCHANGED <<pending, servicesStatus, statusLoading, isStatusPanelVisible,
                   statusChecks, graphPane>>

\* Mutation: handleSearch returns without resetting isLoading.
FinallyKeepsLoading(u) ==
    [u EXCEPT !.search = [@ EXCEPT !.pc = "idle", !.searchQuery = <<>>,
                                   !.response = Null, !.calls = <<>>]]

\* finally { setIsLoading(false) }: handleSearch returns.
Finally(u) ==
    [u EXCEPT !.isLoading = FALSE,
              !.search = [@ EXCEPT !.pc = "idle", !.searchQuery = <<>>,
                                   !.response = Null, !.calls = <<>>]]

\* Mutation: the catch block also clears the protein on display.
CatchSearchClears(u) ==
    Finally([u EXCEPT !.messages = Append(@, Message("system", ErrorText)),
                      !.followUpSuggestions = ErrorSuggestions,
                      !.activeProtein = Null,
                      !.structureData = Null,
                      !.search.result = "error"])

\* Mutation: the catch block leaves the suggestions as they are.
CatchSearchKeepsSuggestions(u) ==
    Finally([u EXCEPT !.messages = Append(@, Message("system", ErrorText)),
                      !.search.result = "error"])

\* catch (error) of handleSearch.
CatchSearch(u) ==
    Finally([u EXCEPT !.messages = Append(@, Message("system", ErrorText)),
                      !.followUpSuggestions = ErrorSuggestions,
                      !.search.result = "error"])

\* Mutation: the query text is not consulted for the tab.
FinishProteinKeepsTab(u) ==
    LET id == Get(Get(u.search.response, "data"), "id")
    IN  Finally([u EXCEPT !.followUpSuggestions = ProteinSuggestions(id),
                          !.search.result = "protein"])

\* Lines 2410-2425: the tab chosen from the query text, then the suggestions.
FinishProtein(u) ==
    LET q == u.search.searchQuery
        id == Get(Get(u.search.response, "data"), "id")
        tab == IF Mentions(q, InteractionChunks) THEN 1
               ELSE IF Mentions(q, GraphChunks) THEN 2
               ELSE u.activeTab
    IN  Finally([u EXCEPT !.activeTab = tab,
                          !.followUpSuggestions = ProteinSuggestions(id),
                          !.search.result = "protein"])

\* Lines 2372-2386: the knowledge graph of the reply, or the raced request.
KnowledgeGraphStage(u) ==
    LET r == u.search.response
    IN  IF /\ Truthy(Get(r, "visualization_data"))
           /\ Get(r, "visualization_type") = S("knowledge_graph")
        THEN FinishProtein([u EXCEPT
                 !.knowledgeGraphData = Get(r, "visualization_data"),
                 !.search.origin.knowledgeGraphData =
                     From(Get(Get(r, "data"), "id"), "chat"),
                 !.activeTab = 2])
        ELSE [u EXCEPT !.search.pc = "kg",
                       !.search.calls = Append(@, "knowledge-graph")]

\* A valid knowledge-graph response has array-valued nodes and edges.
ValidGraph(g) ==
    /\ Truthy(g)
    /\ Truthy(Get(g, "nodes")) /\ IsArray(Get(g, "nodes"))
    /\ Truthy(Get(g, "edges")) /\ IsArray(Get(g, "edges"))

\* Lines 2387-2407: the race has settled.
KnowledgeGraphSettled(u, outcome) ==
    LET valid == outcome.ok /\ ValidGraph(outcome.value)
        id == Get(Get(u.search.response, "data"), "id")
    IN  FinishProtein([u EXCEPT
            !.knowledgeGraphData = IF valid THEN outcome.value ELSE Null,
            !.search.origin.knowledgeGraphData =
                IF valid THEN From(id, "knowledge-graph") ELSE Null,
            !.search.kgFetch = IF valid THEN "ok" ELSE "failed"])

\* JavaScript v.length > 0 for the values a reply carries.
HasLength(v) ==
    \/ (IsArray(v) /\ Len(v.items) > 0)
    \/ (v.t = "str" /\ v.s # <<>>)

\* Lines 2359-2370: interactions of the reply, or handleInteractionsResponse.
InteractionsStage(u) ==
    LET r == u.search.response
        embedded == Get(Get(r, "data"), "interactions")
    IN  IF /\ Truthy(Get(r, "visualization_data"))
           /\ Get(r, "visualization_type") = S("interactions")
        THEN KnowledgeGraphStage([u EXCEPT
                 !.interactionsData = Get(r, "visualization_data"),
                 !.search.origin.interactionsData =
                     From(Get(Get(r, "data"), "id"), "chat"),
                 !.activeTab = 1])
        ELSE IF Truthy(embedded) /\ HasLength(embedded)
        THEN KnowledgeGraphStage([u EXCEPT
                 !.interactionsData = embedded,
                 !.search.origin.interactionsData =
                     From(Get(Get(r, "data"), "id"), "chat")])
        ELSE [u EXCEPT !.search.pc = "interactions",
                       !.search.calls = Append(@, "interactions")]

\* await handleInteractionsResponse(response.data.id) has returned (or thrown).
InteractionsSettled(u, outcome) ==
    LET id == Get(Get(u.search.response, "data"), "id")
        e == handleInteractionsResponse(id, outcome)
        set == [u EXCEPT
                  !.interactionsData = IF e.setData THEN e.interactionsData ELSE @,
                  !.knowledgeGraphData = IF e.setKg THEN e.knowledgeGraphData ELSE @,
                  !.search.origin.interactionsData =
                      IF e.setData THEN From(id, "interactions") ELSE @,
                  !.search.origin.knowledgeGraphData =
                      IF e.setKg THEN From(id, "interactions") ELSE @,
                  !.activeTab = IF e.setTab THEN 1 ELSE @]
    IN  IF e.escaped THEN CatchSearch(set) ELSE KnowledgeGraphStage(set)

\* Mutation: the interactions and the knowledge graph are requested together
\* once the structure has settled.
StructureSettledStartsBoth(u, outcome) ==
    [u EXCEPT !.structureData = IF outcome.ok THEN outcome.value ELSE Null,
              !.search.structureFetch = IF outcome.ok THEN "ok" ELSE "failed",
              !.search.pc = "interactions",
              !.search.calls = Append(Append(@, "knowledge-graph"), "interactions")]

\* Lines 2349-2356: getProteinStructure has settled.
StructureSettled(u, outcome) ==
    InteractionsStage([u EXCEPT
        !.structureData = IF outcome.ok THEN outcome.value ELSE Null,
        !.search.origin.structureData =
            IF outcome.ok
            THEN From(Get(Get(u.search.response, "data"), "id"), "structure")
            ELSE Null,
        !.search.structureFetch = IF outcome.ok THEN "ok" ELSE "failed"])

\* Mutation: a reply without protein data clears the panes.
ReplyStageClearsPanes(u) ==
    LET r == u.search.response
        data == Get(r, "data")
    IN  IF Truthy(data) /\ Truthy(Get(data, "id"))
        THEN [u EXCEPT !.activeProtein = Get(data, "id"), !.proteinData = data,
                       !.search.pc = "structure",
                       !.search.calls = Append(@, "structure")]
        ELSE Finally([u EXCEPT !.activeProtein = Null, !.proteinData = Null,
                               !.structureData = Null,
                               !.followUpSuggestions = DefaultSuggestions,
                               !.search.result = "plain"])

\* Lines 2338-2357 and 2427-2436: the reply's protein data, or suggestions.
ReplyStage(u) ==
    LET r == u.search.response
        data == Get(r, "data")
        sugg == Get(r, "follow_up_suggestions")
    IN  IF Truthy(data) /\ Truthy(Get(data, "id"))
        THEN LET v == [u EXCEPT !.activeProtein = Get(data, "id"),
                                !.proteinData = data]
             IN  IF Truthy(Get(data, "structure"))
                 THEN InteractionsStage(
                          [v EXCEPT !.structureData = Get(data, "structure"),
                                    !.search.origin.structureData =
                                        From(Get(data, "id"), "chat")])
                 ELSE [v EXCEPT !.search.pc = "structure",
                                !.search.calls = Append(@, "structure")]
        ELSE IF Truthy(sugg) /\ HasLength(sugg)
        THEN Finally([u EXCEPT !.followUpSuggestions =
                                   [i \in DOMAIN sugg.items |-> sugg.items[i].s],
                               !.search.result = "plain"])
        ELSE Finally([u EXCEPT !.followUpSuggestions = DefaultSuggestions,
                               !.search.result = "plain"])

\* Mutation: a reply without a message appends nothing to the history.
ChatSettledSilent(u, outcome) ==
    IF ~outcome.ok \/ Nullish(outcome.value)
    THEN CatchSearch(u)
    ELSE IF ~Truthy(Get(outcome.value, "message"))
    THEN ReplyStage([u EXCEPT !.search.response = outcome.value])
    ELSE ReplyStage([u EXCEPT
             !.messages = Append(@, Message("system", Get(outcome.value, "message"))),
             !.search.response = outcome.value])

\* Lines 2327-2336 and the catch: sendChatMessage has settled.  Reading
\* response.message of a null reply throws into the catch block.
ChatSettled(u, outcome) ==
    IF ~outcome.ok \/ Nullish(outcome.value)
    THEN CatchSearch(u)
    ELSE ReplyStage([u EXCEPT
             !.messages = Append(@, Message("system",
                              Or(Get(outcome.value, "message"), NotFoundText))),
             !.search.response = outcome.value])

\* Mutation: the chat request is posted without the session.
sendChatMessageAnonymous(id) == Null

\* The session_id field of the body sendChatMessage posts.
sendChatMessage(id) == Or(id, Null)

\* handleSearch(searchQuery) up to its first await.
handleSearch(u, searchQuery) ==
    [u EXCEPT !.isLoading = TRUE,
              !.messages = Append(@, Message("user", Str(searchQuery))),
              !.search = [pc |-> "chat", searchQuery |-> searchQuery,
                          response |-> Null, calls |-> <<"chat">>,
                          structureFetch |-> "none", kgFetch |-> "none",
                          result |-> "none", count |-> @.count + 1,
                          origin |-> @.origin,
                          sessions |-> @.sessions \cup {sendChatMessage(u.sessionId)}]]

\* Mutation: handleSubmit tests the query without trimming it.
handleSubmitNoTrim(u) ==
    IF u.query # <<>>
    THEN [handleSearch(u, u.query) EXCEPT !.query = <<>>]
    ELSE u

\* handleSubmit: a query that trims to nothing is dropped.
handleSubmit(u) ==
    IF Trim(u.query) # <<>>
    THEN [handleSearch(u, u.query) EXCEPT !.query = <<>>]
    ELSE u

\* handleFollowUpClick(question)
handleFollowUpClick(u, question) ==
    handleSearch([u EXCEPT !.query = <<>>], question)

-----------------------------------------------------------------------------
(* Actions of the chat machine *)

\* onChange of the input box; the input is disabled while isLoading.
SetQuery(q) ==
    /\ ~isLoading
    /\ search.count < MaxSearches
    /\ Commit([UI EXCEPT !.query = q], "setQuery")

\* The form is submitted; input and button are disabled while isLoading.
Submit ==
    /\ ~isLoading
    /\ search.count < MaxSearches
    /\ Commit(handleSubmit(UI), "submit")

\* Mutation: the chips stay rendered, and can be clicked, while a search runs.
FollowUpClickWhileLoading ==
    /\ search.count <= MaxSearches
    /\ \E i \in DOMAIN followUpSuggestions :
          Commit(handleFollowUpClick(UI, followUpSuggestions[i]), "followUp")

\* A follow-up chip is clicked; chips are rendered only while not loading.
FollowUpClick ==
    /\ ~isLoading
    /\ search.count < MaxSearches
    /\ \E i \in DOMAIN followUpSuggestions :
          Commit(handleFollowUpClick(UI, followUpSuggestions[i]), "followUp")

\* Mutation: a tab click also drops the data of the panes it leaves.
ClickTabDropsData(t) ==
    Commit([UI EXCEPT !.activeTab = t,
                      !.structureData = IF t = 0 THEN @ ELSE Null,
                      !.interactionsData = IF t = 1 THEN @ ELSE Arr(<<>>),
                      !.knowledgeGraphData = IF t = 2 THEN @ ELSE Null], "tab")

\* One of the three tab buttons is clicked.
ClickTab(t) == Commit([UI EXCEPT !.activeTab = t], "tab")

ChatSettles ==
    /\ search.pc = "chat"
    /\ \E o \in ChatOutcomes :
          Commit(ChatSettled(UI, o), IF o.ok THEN "chatResolved" ELSE "chatRejected")

StructureSettles ==
    /\ search.pc = "structure"
    /\ \E o \in StructureOutcomes : Commit(StructureSettled(UI, o), "structure")

InteractionsSettle ==
    /\ search.pc = "interactions"
    /\ \E o \in InteractionOutcomes : Commit(InteractionsSettled(UI, o), "interactions")

KnowledgeGraphSettles ==
    /\ search.pc = "kg"
    /\ \E o \in KnowledgeGraphOutcomes :
          Commit(KnowledgeGraphSettled(UI, o), "knowledgeGraph")

\* Values uuidv4() may return at mount.
SessionIds == {S("uuid-1"), S("uuid-2")}

\* No graph pane is mounted (the structure tab is the active one at mount).
NoGraphPane == Null

\* The checkServices calls so far: how many were issued (a call is known by
\* its number), which are waiting for checkAllServices, which one returned
\* last and with what.
NoStatusChecks == [issued |-> 0, inflight |-> {}, arrived |-> 0, last |-> Undef]

\* Status panel at mount: all services 'checking', loading, hidden.
StatusInitial ==
    [server |-> S("checking"), neo4j |-> S("checking"), redis |-> S("checking"),
     llm |-> S("checking"), api_integrations |-> S("checking")]

\* The state after mount, for any uuid the mount may have drawn.
InitSession ==
    /\ query = <<>>
    /\ messages = <<WelcomeMessage>>
    /\ activeProtein = Null
    /\ proteinData = Null
    /\ structureData = Null
    /\ interactionsData = Arr(<<>>)
    /\ knowledgeGraphData = Null
    /\ isLoading = FALSE
    /\ followUpSuggestions = <<>>
    /\ activeTab = 0
    /\ search = IdleSearch(0)
    /\ pending = Null
    /\ viewerState = ViewerEffect(Null, Null)
    /\ servicesStatus = Obj(StatusInitial)
    /\ statusLoading = TRUE
    /\ isStatusPanelVisible = FALSE
    /\ statusChecks = NoStatusChecks
    /\ sessionId \in SessionIds
    /\ graphPane = NoGraphPane
    /\ lastOp = "mount"

\* One session: which uuid was drawn matters to the chat request alone, so
\* the other properties are explored for one of them.
Init == InitSession /\ sessionId = S("uuid-1")

Next ==
    \/ \E q \in TypedQueries : SetQuery(q)
    \/ Submit
    \/ FollowUpClick
    \/ \E t \in Tabs : ClickTab(t)
    \/ ChatSettles
    \/ StructureSettles
    \/ InteractionsSettle
    \/ KnowledgeGraphSettles

Spec == Init /\ [][Next]_vars

SpecSession == InitSession /\ [][Next]_vars

\* A step of the awaiting continuation: the activation record moves on.
SettleStep == search.pc # "idle" /\ search' # search

\* The requests handleSearch awaits, one at a time.
RequestSettles ==
    ChatSettles \/ StructureSettles \/ InteractionsSettle \/ KnowledgeGraphSettles

\* handleSearch is idle or awaits one of its four requests; the action of that
\* request is then enabled, its guard being the value of search.pc.
AwaitsOneRequest ==
    search.pc \in {"idle", "chat", "structure", "interactions", "kg"}

\* The steps that move the activation record of an awaiting handleSearch are
\* the steps of RequestSettles.
SettleStepsAreRequestSettles == [][SettleStep <=> RequestSettles]_vars

\* Every HTTP request settles within the axios timeout (30 s), and the
\* knowledge-graph race within its own timer (15 s), so an awaiting
\* continuation eventually runs: weak fairness of RequestSettles, written
\* with its enabling condition (search.pc # "idle") and its steps
\* (<<SettleStep>>_vars) as the two statements above give them.
FairSpec ==
    Spec /\ (<>[](search.pc # "idle") => []<><<SettleStep>>_vars)

-----------------------------------------------------------------------------
(* Properties of the chat machine *)

VisualizationState ==
    <<activeProtein, proteinData, structureData, interactionsData,
      knowledgeGraphData, activeTab>>

\* C2: a submit whose text is empty or only whitespace starts no search and
\* issues no request: no message is appended, isLoading, the activation
\* record of handleSearch and all visualization state stay as they were.
BlankSubmitDoesNothing ==
    [][(lastOp' = "submit" /\ Trim(query) = <<>>) =>
         UNCHANGED <<query, messages, isLoading, search, followUpSuggestions,
                     VisualizationState>>]_vars

\* A whitespace-only text has been submitted and nothing was started.
BlankSubmitWitness ==
    /\ lastOp = "submit" /\ search.pc = "idle" /\ search.calls = <<>>
    /\ query # <<>> /\ Trim(query) = <<>>

\* C4: a click on a tab button changes activeTab only; the protein and the
\* data fetched for the three panes are left as they were.
TabSwitchKeepsData ==
    [][lastOp' = "tab" =>
         UNCHANGED <<query, messages, isLoading, search, followUpSuggestions,
                     activeProtein, proteinData, structureData,
                     interactionsData, knowledgeGraphData>>]_vars

\* The user is back on the structure tab after a click, with the data of all
\* three panes still present.
TabSwitchWitness ==
    /\ lastOp = "tab" /\ activeTab = 0
    /\ Truthy(activeProtein) /\ Truthy(structureData)
    /\ Truthy(knowledgeGraphData)
    /\ IsArray(interactionsData) /\ Len(interactionsData.items) > 0
    /\ viewerState.viewerUrl = RcsbUrl(<<"1TUP">>)

\* C6 as the spec states it: after a completed search whose reply identified
\* a protein, interactionsData is a non-empty list and the interaction pane
\* does not render its empty state.
InteractionsNeverEmpty ==
    (search.pc = "idle" /\ search.result = "protein") =>
        /\ IsArray(interactionsData) /\ Len(interactionsData.items) > 0
        /\ NetworkRender(activeProtein, interactionsData) # "empty"

\* The texts a system message can carry.
SystemTexts == {S("reply"), NotFoundText, ErrorText}

IsUserMessage(m) == m.type = "user" /\ m.content.t = "str"
IsSystemMessage(m) == m.type = "system" /\ m.content \in SystemTexts

\* C7: the history is append-only; a step that starts a search appends the
\* user's text, the step in which the chat request settles appends exactly
\* one system message, and no other step touches the history, so every
\* search contributes a user message followed by one system message.
HistoryAppendOnly ==
    /\ [](/\ Len(messages) = 1 + 2 * search.count
                               - (IF search.pc = "chat" THEN 1 ELSE 0)
          /\ \A k \in 1 .. search.count :
                /\ IsUserMessage(messages[2 * k])
                /\ (2 * k + 1 <= Len(messages) =>
                        IsSystemMessage(messages[2 * k + 1])))
    /\ [][\/ /\ search'.count = search.count + 1
             /\ messages' = Append(messages,
                                   Message("user", Str(search'.searchQuery)))
          \/ /\ search.pc = "chat" /\ search'.pc # "chat"
             /\ search'.count = search.count
             /\ \E c \in SystemTexts :
                   messages' = Append(messages, Message("system", c))
          \/ /\ search'.count = search.count
             /\ (search.pc = "chat" => search'.pc = "chat")
             /\ messages' = messages]_vars

\* Two searches have completed, the second one through the catch block.
HistoryWitness ==
    /\ search.pc = "idle" /\ search.count = 2 /\ Len(messages) = 5
    /\ messages[3].content = S("reply")
    /\ messages[5].content = ErrorText

\* C8: every search that set isLoading is followed by isLoading false.
LoadingEnds == isLoading ~> ~isLoading

\* A search has completed although its structure and knowledge-graph
\* fetches both failed.
LoadingEndsWitness ==
    /\ ~isLoading /\ search.pc = "idle" /\ search.result = "protein"
    /\ search.structureFetch = "failed" /\ search.kgFetch = "failed"

\* C9 as the spec states it: after a search whose structure fetch failed the
\* structure pane is in its error state and not loading, and likewise for
\* the knowledge-graph pane after a failed knowledge-graph fetch.
FailedFetchShowsError ==
    (search.pc = "idle" /\ search.result = "protein") =>
        /\ search.structureFetch = "failed" =>
              LET vs == ViewerEffect(activeProtein, structureData)
              IN  ~vs.loading /\ Truthy(vs.error)
        /\ search.kgFetch = "failed" =>
              LET vs == KGVisualState(activeProtein, knowledgeGraphData)
              IN  ~vs.loading /\ Truthy(vs.error)

\* C10: when the chat request is rejected, exactly one system message with
\* the error text is appended, the error suggestions are set, the search
\* ends, and the protein, the pane data and the active tab are untouched.
ChatFailureIsOneMessage ==
    [][lastOp' = "chatRejected" =>
         /\ messages' = Append(messages, Message("system", ErrorText))
         /\ followUpSuggestions' = ErrorSuggestions
         /\ ~isLoading' /\ search'.pc = "idle"
         /\ UNCHANGED VisualizationState]_vars

\* A second search failed while the first one's protein data is on display.
ChatFailureWitness ==
    /\ lastOp = "chatRejected" /\ search.count = 2
    /\ Truthy(activeProtein) /\ Truthy(structureData)
    /\ messages[Len(messages)].content = ErrorText

-----------------------------------------------------------------------------
(* ServiceStatusPanel: checkServices and the indicators *)

\* Number of checkServices calls a run may issue.
MaxChecks == 2

Services == {"server", "neo4j", "redis", "llm", "api_integrations"}

StatusValues == {S("ok"), S("error"), S("unknown"), S("partial"), S("checking")}

\* Number of services a status payload reports as anything but 'ok'.
MaxNotOk == 2

\* Bodies of GET /api/status (or /status): a status per service, or no body.
StatusPayloads ==
    {Null} \cup
    {Obj(f) : f \in {g \in [Services -> StatusValues] :
                        Cardinality({svc \in Services : g[svc] # S("ok")}) <= MaxNotOk}}

\* Every service 'error', with the message of the exception caught.
AllServicesError(message) ==
    Obj([server |-> S("error"), neo4j |-> S("error"), redis |-> S("error"),
         llm |-> S("error"), api_integrations |-> S("error"),
         error |-> S(message)])

\* What statusChecker.checkAllServices returns when both of its requests fail;
\* it never rejects.
CheckerFailed == AllServicesError("Network Error")

\* ServiceStatusIndicator.getStatusColor
getStatusColor(status) ==
    CASE status = S("ok") -> "bg-green-500"
      [] status = S("error") -> "bg-red-500"
      [] status = S("unknown") -> "bg-red-500"
      [] status = S("partial") -> "bg-yellow-500"
      [] status = S("checking") -> "bg-blue-300 animate-pulse"
      [] OTHER -> "bg-gray-300"

\* The indicator the panel renders for a service.
Indicator(service) == getStatusColor(Get(servicesStatus, service))

\* What the panel shows.
StatusRender ==
    IF ~isStatusPanelVisible THEN "hidden"
    ELSE IF statusLoading THEN "spinner"
    ELSE "indicators"

\* Mutation: one errored service makes checkServices mark every service.
checkServicesAllOrNothing(statusData) ==
    IF Nullish(statusData)
    THEN AllServicesError("Cannot convert undefined or null to object")
    ELSE IF \E svc \in Services : Get(statusData, svc) = S("error")
    THEN AllServicesError("error")
    ELSE statusData

\* The try/catch of checkServices once checkAllServices has returned
\* statusData: Object.entries(null) throws after setServicesStatus(null).
checkServices(statusData) ==
    IF Nullish(statusData)
    THEN AllServicesError("Cannot convert undefined or null to object")
    ELSE statusData

ChatUnchanged ==
    UNCHANGED <<query, messages, activeProtein, proteinData, structureData,
                interactionsData, knowledgeGraphData, isLoading,
                followUpSuggestions, activeTab, search, pending, viewerState,
                sessionId, graphPane>>

\* checkServices up to its await: setIsLoading(true) and the request.
IssueCheck ==
    /\ statusLoading' = TRUE
    /\ statusChecks' = [statusChecks EXCEPT
                           !.issued = @ + 1,
                           !.inflight = @ \cup {statusChecks.issued + 1}]

\* "View System Status" is clicked: the panel becomes visible and its effect
\* on [isVisible] calls checkServices.
OpenStatusPanel ==
    /\ ~isStatusPanelVisible
    /\ statusChecks.issued < MaxChecks
    /\ isStatusPanelVisible' = TRUE
    /\ IssueCheck
    /\ lastOp' = "openStatus"
    /\ UNCHANGED servicesStatus
    /\ ChatUnchanged

\* The close button: the panel is hidden; it stays mounted and keeps its state.
CloseStatusPanel ==
    /\ isStatusPanelVisible
    /\ isStatusPanelVisible' = FALSE
    /\ lastOp' = "closeStatus"
    /\ UNCHANGED <<servicesStatus, statusLoading, statusChecks>>
    /\ ChatUnchanged

\* "Refresh Status", rendered with the indicators.
RefreshStatus ==
    /\ StatusRender = "indicators"
    /\ statusChecks.issued < MaxChecks
    /\ IssueCheck
    /\ lastOp' = "refreshStatus"
    /\ UNCHANGED <<servicesStatus, isStatusPanelVisible>>
    /\ ChatUnchanged

\* Mutation: a check applies its payload only when no later check was issued.
StatusSettlesLatestOnly ==
    \E id \in statusChecks.inflight, p \in StatusPayloads \cup {CheckerFailed} :
        /\ servicesStatus' = IF id = statusChecks.issued
                             THEN checkServices(p) ELSE servicesStatus
        /\ statusLoading' = IF id = statusChecks.issued THEN FALSE ELSE statusLoading
        /\ statusChecks' = [statusChecks EXCEPT
                               !.inflight = @ \ {id}, !.arrived = id, !.last = p]
        /\ lastOp' = "statusSettled"
        /\ UNCHANGED isStatusPanelVisible
        /\ ChatUnchanged

\* Any check in flight returns its payload: try, catch and finally.
StatusSettles ==
    \E id \in statusChecks.inflight, p \in StatusPayloads \cup {CheckerFailed} :
        /\ servicesStatus' = checkServices(p)
        /\ statusLoading' = FALSE
        /\ statusChecks' = [statusChecks EXCEPT
                               !.inflight = @ \ {id}, !.arrived = id, !.last = p]
        /\ lastOp' = "statusSettled"
        /\ UNCHANGED isStatusPanelVisible
        /\ ChatUnchanged

NextStatus ==
    \/ OpenStatusPanel
    \/ CloseStatusPanel
    \/ RefreshStatus
    \/ StatusSettles

\* The panel shares no state with the chat machine, so it is explored alone.
SpecStatus == Init /\ [][NextStatus]_vars

\* C5: once a check has applied a payload, a service the payload marks
\* 'error' is rendered red, and every service is rendered by its own status
\* alone: ok green, partial yellow, checking blue, error and unknown red.
IndicatorsFollowOwnStatus ==
    (lastOp = "statusSettled" /\ statusChecks.last.t = "obj") =>
        \A svc \in Services :
            LET own == Get(statusChecks.last, svc)
            IN  /\ own = S("error") => Indicator(svc) = "bg-red-500"
                /\ own = S("unknown") => Indicator(svc) = "bg-red-500"
                /\ own = S("ok") => Indicator(svc) = "bg-green-500"
                /\ own = S("partial") => Indicator(svc) = "bg-yellow-500"
                /\ own = S("checking") => Indicator(svc) = "bg-blue-300 animate-pulse"

\* The payload marked redis alone as errored: redis is red while the other
\* indicators are green and yellow.
IndicatorsWitness ==
    /\ lastOp = "statusSettled" /\ StatusRender = "indicators"
    /\ Get(statusChecks.last, "redis") = S("error")
    /\ Indicator("redis") = "bg-red-500"
    /\ Indicator("server") = "bg-green-500"
    /\ Indicator("neo4j") = "bg-green-500"
    /\ Indicator("llm") = "bg-yellow-500"
    /\ Indicator("api_integrations") = "bg-green-500"

-----------------------------------------------------------------------------
(* ProteinStructureVisualizer on its own: the effect over its two props *)

\* proteinId props: none, the empty string, and ids with and without an
\* isoform or version suffix.
ViewerIds ==
    {Null, Str(<<>>), S("P04637"), Str(<<"P04637", "-", "2">>),
     Str(<<"P04637", ".", "1">>)}

\* structureData props: not there yet, or an object with any of the fields
\* the effect reads.
ViewerStructures ==
    {Null} \cup
    {Obj(a @@ b @@ c @@ d @@ e @@ f) :
        a \in Opt("viewer_url", {S("https://example.org/viewer")}),
        b \in Opt("pdb_id", {S("1TUP"), Str(<<>>)}),
        c \in Opt("alphafold_id", {Str(<<"AF", "-", "P38398", "-", "F1">>), Num(5)}),
        d \in Opt("uniprot_id", {Str(<<"P38398", ".", "2">>)}),
        e \in Opt("status", {S("unavailable")}),
        f \in Opt("message", {S("No experimental structure")})}

\* The pane has just been mounted with its props; the parent's other state is
\* as at mount, the pane depends on these two props alone.
InitViewer ==
    /\ activeProtein \in ViewerIds
    /\ structureData \in ViewerStructures
    /\ viewerState = ViewerInitial
    /\ lastOp = "mountViewer"
    /\ query = <<>>
    /\ messages = <<WelcomeMessage>>
    /\ proteinData = Null
    /\ interactionsData = Arr(<<>>)
    /\ knowledgeGraphData = Null
    /\ isLoading = FALSE
    /\ followUpSuggestions = <<>>
    /\ activeTab = 0
    /\ search = IdleSearch(0)
    /\ pending = Null
    /\ servicesStatus = Obj(StatusInitial)
    /\ statusLoading = TRUE
    /\ isStatusPanelVisible = FALSE
    /\ statusChecks = NoStatusChecks
    /\ sessionId = S("uuid-1")
    /\ graphPane = NoGraphPane

PaneFrame ==
    UNCHANGED <<query, messages, activeProtein, proteinData, interactionsData,
                knowledgeGraphData, isLoading, followUpSuggestions, activeTab,
                search, pending, servicesStatus, statusLoading,
                isStatusPanelVisible, statusChecks, sessionId, graphPane>>

\* useEffect(..., [structureData, proteinId]) runs after the mount.
StructureEffectRuns ==
    /\ lastOp = "mountViewer"
    /\ viewerState' = ViewerEffect(activeProtein, structureData)
    /\ lastOp' = "structureEffect"
    /\ UNCHANGED structureData
    /\ PaneFrame

\* The parent sets the structure data it was waiting for; the effect reruns.
StructureArrives ==
    /\ lastOp = "structureEffect" /\ structureData = Null
    /\ \E st \in ViewerStructures \ {Null} :
          /\ structureData' = st
          /\ viewerState' = ViewerEffect(activeProtein, st)
    /\ lastOp' = "structureArrived"
    /\ PaneFrame

NextViewer == StructureEffectRuns \/ StructureArrives

SpecViewer == InitViewer /\ [][NextViewer]_vars

\* The text of an id before its first '-' or '.'.
BaseOf(id) ==
    LET n == CHOOSE k \in 0 .. Len(id) :
                 /\ \A i \in 1 .. k : id[i] \notin {"-", "."}
                 /\ (k = Len(id) \/ id[k + 1] \in {"-", "."})
    IN  SubSeq(id, 1, n)

EffectHasRun == lastOp \in {"structureEffect", "structureArrived"}

\* C3 as the spec states it: once a search has named a protein, the mounted
\* structure pane ends with a viewer URL, by the PDB id if present, else by
\* the predicted-model id if present, else by the protein id.
StructurePaneEndsWithUrl ==
    (search.pc = "idle" /\ search.result = "protein" /\ activeTab = 0) =>
        LET pdb == Get(structureData, "pdb_id")
            model == Or(Get(structureData, "alphafold_id"),
                        Get(structureData, "uniprot_id"))
            url == viewerState.viewerUrl
        IN  /\ url # Null
            /\ Truthy(pdb) =>
                  url = Str(<<"https://www.rcsb.org/3d-view/">> \o pdb.s \o <<"/">>)
            /\ (~Truthy(pdb) /\ Truthy(model) /\ model.t = "str") =>
                  url = Str(<<"https://alphafold.ebi.ac.uk/entry/">> \o BaseOf(model.s))
            /\ (~Truthy(pdb) /\ ~Truthy(model)) =>
                  url = Str(<<"https://alphafold.ebi.ac.uk/entry/">>
                            \o BaseOf(activeProtein.s))

\* What the pane does for every pair of props: with a non-empty protein id it
\* is loading with no URL while there is no structure data; once there is, it
\* ends with a URL and no error: the backend's viewer_url if present, else by
\* the PDB id, else by the predicted-model id when that is a string, else by
\* the protein id.
ViewerUrlByPriority ==
    (EffectHasRun /\ Truthy(activeProtein)) =>
        LET given == Get(structureData, "viewer_url")
            pdb == Get(structureData, "pdb_id")
            model == Or(Get(structureData, "alphafold_id"),
                        Get(structureData, "uniprot_id"))
            url == viewerState.viewerUrl
        IN  IF ~Truthy(structureData)
            THEN viewerState.loading /\ url = Null
            ELSE /\ ~viewerState.loading /\ viewerState.error = Null
                 /\ url # Null
                 /\ Truthy(given) => url = given
                 /\ (~Truthy(given) /\ Truthy(pdb)) =>
                       url = Str(<<"https://www.rcsb.org/3d-view/">> \o pdb.s \o <<"/">>)
                 /\ (~Truthy(given) /\ ~Truthy(pdb)
                       /\ Truthy(model) /\ model.t = "str") =>
                       url = Str(<<"https://alphafold.ebi.ac.uk/entry/">>
                                 \o BaseOf(model.s))
                 /\ (~Truthy(given) /\ ~Truthy(pdb)
                       /\ ~(Truthy(model) /\ model.t = "str")) =>
                       url = Str(<<"https://alphafold.ebi.ac.uk/entry/">>
                                 \o BaseOf(activeProtein.s))

\* The structure data of an isoform id arrived with an AlphaFold id and no
\* PDB id: the URL is built from the AlphaFold id cut at its first '-'.
ViewerUrlWitness ==
    /\ lastOp = "structureArrived"
    /\ activeProtein = Str(<<"P04637", "-", "2">>)
    /\ ~Truthy(Get(structureData, "viewer_url"))
    /\ ~Truthy(Get(structureData, "pdb_id"))
    /\ Truthy(Get(structureData, "alphafold_id"))
    /\ viewerState.viewerUrl = Str(<<"https://alphafold.ebi.ac.uk/entry/", "AF">>)

-----------------------------------------------------------------------------
(* handleInteractionsResponse over the response shapes of the endpoint *)

\* Length of the arrays a response carries.
MaxItems == 2

\* An interaction under the alternative field names, with a numeral score.
AltInteraction ==
    Obj([id |-> S("P38398"), name |-> S("BRCA1"), score |-> NumStr(900),
         source |-> S("database"), is_generated |-> Bool(TRUE)])

\* An interaction whose evidence is a list of sources, here an empty one.
ListEvidenceInteraction ==
    Obj([protein_id |-> S("P38398"), protein_name |-> S("BRCA1"),
         score |-> Num(900), evidence |-> Arr(<<>>)])

RECURSIVE SeqsUpTo(_, _)
SeqsUpTo(items, n) ==
    IF n = 0 THEN {<<>>}
    ELSE SeqsUpTo(items, n - 1) \cup
         {Append(a, x) : a \in {b \in SeqsUpTo(items, n - 1) : Len(b) = n - 1},
                         x \in items}

\* Arrays of interactions; elements may be null or carry no field.
InteractionArrays ==
    {Arr(a) : a \in SeqsUpTo({Null, EmptyObj, SampleInteraction, AltInteraction,
                              ListEvidenceInteraction}, MaxItems)}

\* Arrays under unrelated field names.
OtherArrays ==
    {Arr(a) : a \in SeqsUpTo({SampleInteraction, AltInteraction}, MaxItems)}

\* Bodies the interactions endpoint may answer with.
InteractionBodies ==
    {Null, Undef, Num(0), Bool(TRUE), Str(<<>>), S("Internal Server Error"),
     JsonStr(Null), Obj([interactions |-> S("none")])}
    \cup InteractionArrays
    \cup {Obj([interactions |-> a] @@ g) :
             a \in InteractionArrays, g \in Opt("knowledge_graph", {SampleGraph})}
    \cup {JsonStr(a) : a \in InteractionArrays}
    \cup {JsonStr(Obj([interactions |-> a])) : a \in InteractionArrays}
    \cup {Obj(r @@ q @@ c) : r \in Opt("results", OtherArrays),
                            q \in Opt("partners", OtherArrays),
                            c \in Opt("count", {Num(3)})}

\* Ids a reply may name: the TP53 accession, its gene symbol in two cases,
\* another accession, and a number.
NormalizerIds == {S("P04637"), S("TP53"), S("tp53"), S("Q9"), Num(7)}

\* handleSearch waits for handleInteractionsResponse(response.data.id): the
\* reply named a protein and embedded its structure but no interactions.
\* pending holds the id and the outcome the request is about to have.
InitNorm ==
    \E id \in NormalizerIds :
    LET data == Obj([id |-> id, structure |-> SampleStructure])
    IN  /\ pending \in {[proteinId |-> id, outcome |-> o] :
                           o \in {Rejected} \cup {Resolved(b) : b \in InteractionBodies}}
        /\ query = <<>>
        /\ messages = <<WelcomeMessage, Message("user", S("tp53")),
                        Message("system", S("reply"))>>
        /\ activeProtein = id
        /\ proteinData = data
        /\ structureData = SampleStructure
        /\ interactionsData = Arr(<<>>)
        /\ knowledgeGraphData = Null
        /\ isLoading = TRUE
        /\ followUpSuggestions = <<>>
        /\ activeTab = 0
        /\ search = [pc |-> "interactions", searchQuery |-> <<"tp53">>,
                     response |-> Obj([message |-> S("reply"), data |-> data]),
                     calls |-> <<"chat", "interactions">>,
                     structureFetch |-> "none", kgFetch |-> "none",
                     result |-> "none", count |-> 1,
                     origin |-> [NoOrigin EXCEPT
                                   !.structureData = From(id, "chat")],
                     sessions |-> {S("uuid-1")}]
        /\ viewerState = ViewerEffect(id, SampleStructure)
        /\ servicesStatus = Obj(StatusInitial)
        /\ statusLoading = TRUE
        /\ isStatusPanelVisible = FALSE
        /\ statusChecks = NoStatusChecks
        /\ sessionId = S("uuid-1")
        /\ graphPane = NoGraphPane
        /\ lastOp = "chatResolved"

\* The interactions request settles with the pending outcome.
InteractionsArrive ==
    /\ search.pc = "interactions"
    /\ pending # Null
    /\ Commit(InteractionsSettled(UI, pending.outcome), "interactions")

NextNorm == InteractionsArrive \/ KnowledgeGraphSettles

SpecNorm == InitNorm /\ [][NextNorm]_vars

\* A canonical interaction record: the five fields, with an id, a name, a
\* score that is a number and an evidence text.
IsInteractionRecord(v) ==
    /\ v.t = "obj"
    /\ DOMAIN v.f = {"protein_id", "protein_name", "score", "evidence", "is_generated"}
    /\ Truthy(v.f.protein_id) /\ Truthy(v.f.protein_name)
    /\ v.f.score.t = "num" /\ Truthy(v.f.evidence)
    /\ v.f.is_generated.t = "bool"

\* C1: whatever the interactions request settled with, no exception left
\* handleInteractionsResponse (the catch block of handleSearch did not run)
\* and interactionsData is a non-empty list of records.
NormalizerNeverThrows ==
    (pending # Null /\ search.pc # "interactions") =>
        /\ search.result # "error"
        /\ messages[Len(messages)].content # ErrorText
        /\ IsArray(interactionsData)
        /\ Len(interactionsData.items) > 0
        /\ \A i \in DOMAIN interactionsData.items :
              IsInteractionRecord(interactionsData.items[i])

\* An array holding a null entry was answered: the map threw, the catch block
\* of the normalizer set its fallback records, and the search went on.
NormalizerWitness ==
    /\ pending # Null /\ pending.outcome = Resolved(Arr(<<SampleInteraction, Null>>))
    /\ lastOp = "interactions" /\ search.pc = "kg"
    /\ interactionsData = Arr(fallbackData)
    /\ activeTab = 1

-----------------------------------------------------------------------------
(* The follow-up fetches of one search *)

\* This step is the failure of one of the three follow-up fetches: the
\* structure request rejects, the normalizer ends in its catch block, or the
\* knowledge-graph race rejects, times out or answers an invalid graph.
FetchFails ==
    \/ (search.pc = "structure" /\ search'.structureFetch = "failed")
    \/ (search.pc = "interactions" /\ search'.pc # "interactions"
          /\ interactionsData' = Arr(fallbackData))
    \/ (search.pc = "kg" /\ search'.kgFetch = "failed")

\* The data of a pane was delivered by the given fetch.
DeliveredBy(pane, call) ==
    search.origin[pane] # Null /\ search.origin[pane].by = call

\* After a failed fetch the search goes on to the fetches that follow it.
FailureGoesOn ==
    /\ search'.result # "error"
    /\ search.pc = "structure" =>
          (search'.pc \in {"interactions", "kg"} \/ search'.result = "protein")
    /\ search.pc = "interactions" =>
          (search'.pc = "kg" \/ search'.result = "protein")

\* What holds of the three fetches: a failed fetch does not stop the search,
\* and structureData delivered by the structure fetch and interactionsData
\* delivered by the interactions fetch outlive every later failure.
OwnDataSurvivesFailures ==
    [][FetchFails =>
         /\ FailureGoesOn
         /\ (search.pc # "structure" /\ DeliveredBy("structureData", "structure"))
               => structureData' = structureData
         /\ (search.pc = "kg" /\ DeliveredBy("interactionsData", "interactions"))
               => interactionsData' = interactionsData]_vars

\* C11 as the spec states it: a failed fetch neither stops the fetches that
\* follow it nor changes any state an earlier fetch of the search set, the
\* knowledge graph an interactions response delivered included.
FetchesFailIndependently ==
    [][FetchFails =>
         /\ FailureGoesOn
         /\ (search.pc # "structure" /\ DeliveredBy("structureData", "structure"))
               => structureData' = structureData
         /\ (search.pc = "kg" /\ DeliveredBy("interactionsData", "interactions"))
               => interactionsData' = interactionsData
         /\ (search.pc = "kg" /\ DeliveredBy("knowledgeGraphData", "interactions"))
               => knowledgeGraphData' = knowledgeGraphData]_vars

-----------------------------------------------------------------------------
(* KnowledgeGraphVisualizer and InteractionNetworkVisualizer: initializeGraph *)

\* Number of times the layout effect of one pane instance runs.
MaxEffects == 2

PaneKinds == {"knowledge-graph", "network"}

\* elements.length of the memo, on both sides of the layout thresholds.
ElementCounts == {5, 15, 30, 60}

\* The layout the try block chooses from elements.length.
PrimaryLayout(kind, n) ==
    IF kind = "knowledge-graph"
    THEN (IF n <= 20 THEN "concentric" ELSE "cose")
    ELSE (IF n <= 10 THEN "concentric" ELSE IF n <= 50 THEN "circle" ELSE "grid")

\* The layout of the catch block.
FallbackLayout(kind) == IF kind = "knowledge-graph" THEN "circle" ELSE "preset"

\* One instance of a graph pane, rendered in its graph branch (cyRef is set,
\* the memo built elements, no error): isMounted.current; what
\* containerRef.current measures ("none" when the ref is null); the closures
\* of the pending setTimeout(initializeGraph, 250) calls, each with the
\* element count it captured; visualState.initialized; the layout applied to
\* cy last; the number of layout.run() calls of the try block and of effect
\* runs; of the last initializeGraph call: how it ended, the element count of
\* its closure, which of its two layout.run() calls throws, and whether an
\* exception left it.
GraphPane(kind, n, container) ==
    [kind |-> kind, mounted |-> TRUE, container |-> container, elements |-> n,
     timers |-> <<>>, initialized |-> FALSE, layout |-> "none", runs |-> 0,
     effects |-> 0, call |-> "none", closure |-> n,
     threw |-> [primary |-> FALSE, fallback |-> FALSE], escaped |-> FALSE]

\* Mutation: initializeGraph lays out without measuring the container.
initializeGraphUnmeasured(g, n, primaryThrows, fallbackThrows) ==
    IF g.container = "none" THEN [g EXCEPT !.call = "returned"]
    ELSE [g EXCEPT !.runs = @ + 1, !.layout = PrimaryLayout(g.kind, n),
                   !.initialized = TRUE, !.call = "primary"]

\* Mutation: initializeGraph without the fallback layout in its catch block.
initializeGraphNoFallback(g, n, primaryThrows, fallbackThrows) ==
    IF g.container = "none" THEN [g EXCEPT !.call = "returned"]
    ELSE IF g.container = "zero"
    THEN [g EXCEPT !.timers = Append(@, n), !.call = "deferred"]
    ELSE IF ~primaryThrows
    THEN [g EXCEPT !.runs = @ + 1, !.layout = PrimaryLayout(g.kind, n),
                   !.initialized = IF g.mounted THEN TRUE ELSE @,
                   !.call = "primary"]
    ELSE [g EXCEPT !.runs = @ + 1, !.call = "failed", !.escaped = TRUE]

\* initializeGraph, called with the elements of its closure; the two flags say
\* whether layout.run() of the primary and of the fallback layout throws.
initializeGraph(g, n, primaryThrows, fallbackThrows) ==
    IF g.container = "none" THEN [g EXCEPT !.call = "returned"]
    ELSE IF g.container = "zero"
    THEN [g EXCEPT !.timers = Append(@, n), !.call = "deferred"]
    ELSE IF ~primaryThrows
    THEN [g EXCEPT !.runs = @ + 1, !.layout = PrimaryLayout(g.kind, n),
                   !.initialized = IF g.mounted THEN TRUE ELSE @,
                   !.call = "primary"]
    ELSE IF ~fallbackThrows
    THEN [g EXCEPT !.runs = @ + 1, !.layout = FallbackLayout(g.kind),
                   !.initialized = IF g.mounted THEN TRUE ELSE @,
                   !.call = "fallback"]
    ELSE [g EXCEPT !.runs = @ + 1, !.call = "failed"]

\* A pane has just been mounted in tab 1 or 2 with the data of a completed
\* search on display; its layout effect has not run yet.
InitGraph ==
    /\ \E kind \in PaneKinds, n \in ElementCounts, c \in {"zero", "sized"} :
          /\ graphPane = GraphPane(kind, n, c)
          /\ activeTab = IF kind = "network" THEN 1 ELSE 2
    /\ lastOp = "mountGraph"
    /\ query = <<>>
    /\ messages = <<WelcomeMessage, Message("user", S("tp53")),
                    Message("system", S("reply"))>>
    /\ activeProtein = S("P04637")
    /\ proteinData = Obj([id |-> S("P04637"), structure |-> SampleStructure])
    /\ structureData = SampleStructure
    /\ interactionsData = Arr(TP53Fallback)
    /\ knowledgeGraphData = SampleGraph
    /\ isLoading = FALSE
    /\ followUpSuggestions = ProteinSuggestions(S("P04637"))
    /\ search = [IdleSearch(1) EXCEPT
                   !.result = "protein", !.kgFetch = "ok",
                   !.sessions = {S("uuid-1")},
                   !.origin = [structureData |-> From(S("P04637"), "chat"),
                               interactionsData |-> From(S("P04637"), "interactions"),
                               knowledgeGraphData |->
                                   From(S("P04637"), "knowledge-graph")]]
    /\ pending = Null
    /\ viewerState = Unmounted
    /\ servicesStatus = Obj(StatusInitial)
    /\ statusLoading = TRUE
    /\ isStatusPanelVisible = FALSE
    /\ statusChecks = NoStatusChecks
    /\ sessionId = S("uuid-1")

GraphFrame ==
    UNCHANGED <<query, messages, activeProtein, proteinData, structureData,
                interactionsData, knowledgeGraphData, isLoading,
                followUpSuggestions, search, pending, servicesStatus,
                statusLoading, isStatusPanelVisible, statusChecks, sessionId>>

\* The effect on [elements, visualState.loading] runs: after the mount with
\* the elements of the mount, later with the elements of a new memo.
GraphEffectRuns ==
    /\ graphPane # NoGraphPane /\ graphPane.mounted
    /\ graphPane.effects < MaxEffects
    /\ \E n \in ElementCounts, pt \in BOOLEAN, ft \in BOOLEAN :
          /\ (graphPane.effects = 0 => n = graphPane.elements)
          /\ graphPane' = initializeGraph(
                 [graphPane EXCEPT !.effects = @ + 1, !.elements = n,
                                   !.closure = n,
                                   !.threw = [primary |-> pt, fallback |-> ft]],
                 n, pt, ft)
    /\ lastOp' = "graphEffect"
    /\ UNCHANGED <<activeTab, viewerState>>
    /\ GraphFrame

\* A pending 250 ms timer fires and calls the initializeGraph of its closure.
RetryTimerFires ==
    /\ graphPane # NoGraphPane
    /\ \E i \in DOMAIN graphPane.timers, pt \in BOOLEAN, ft \in BOOLEAN :
          graphPane' = initializeGraph(
              [graphPane EXCEPT !.timers =
                   SubSeq(@, 1, i - 1) \o SubSeq(@, i + 1, Len(@)),
                                !.closure = graphPane.timers[i],
                                !.threw = [primary |-> pt, fallback |-> ft]],
              graphPane.timers[i], pt, ft)
    /\ lastOp' = "graphTimer"
    /\ UNCHANGED <<activeTab, viewerState>>
    /\ GraphFrame

\* The browser lays the container out, or collapses it again.
ContainerResizes ==
    /\ graphPane # NoGraphPane /\ graphPane.mounted
    /\ graphPane' = [graphPane EXCEPT
                       !.container = IF @ = "zero" THEN "sized" ELSE "zero"]
    /\ lastOp' = "resize"
    /\ UNCHANGED <<activeTab, viewerState>>
    /\ GraphFrame

\* The structure tab is clicked: the pane is unmounted, its refs are cleared;
\* its pending timers are not.
UnmountPane ==
    /\ graphPane # NoGraphPane /\ graphPane.mounted
    /\ graphPane' = [graphPane EXCEPT !.mounted = FALSE, !.container = "none"]
    /\ activeTab' = 0
    /\ viewerState' = ViewerEffect(activeProtein, structureData)
    /\ lastOp' = "unmountPane"
    /\ GraphFrame

NextGraph ==
    \/ GraphEffectRuns
    \/ RetryTimerFires
    \/ ContainerResizes
    \/ UnmountPane

SpecGraph == InitGraph /\ [][NextGraph]_vars

-----------------------------------------------------------------------------
(* Properties of the graph panes *)

InitializeGraphCalled == lastOp' \in {"graphEffect", "graphTimer"}

RetryChainStopsWitness ==
    /\ lastOp = "graphTimer"
    /\ ~graphPane.mounted
    /\ graphPane.call = "returned"
    /\ graphPane.timers = <<>>

\* C13: when the primary layout throws and the fallback does not, the layout
\* applied is circle in the knowledge graph and preset in the interaction
\* network, and the pane is initialized; a call that reaches the layout leaves
\* initialized as it was only when both layouts throw; no exception leaves
\* initializeGraph.
FallbackLayoutOnThrow ==
    /\ [][(InitializeGraphCalled /\ graphPane.container = "sized") =>
            /\ (~graphPane'.threw.primary) =>
                 /\ graphPane'.layout =
                        PrimaryLayout(graphPane.kind, graphPane'.closure)
                 /\ graphPane'.initialized
            /\ (graphPane'.threw.primary /\ ~graphPane'.threw.fallback) =>
                 /\ graphPane'.layout = FallbackLayout(graphPane.kind)
                 /\ graphPane'.layout =
                        (IF graphPane.kind = "knowledge-graph"
                         THEN "circle" ELSE "preset")
                 /\ graphPane'.initialized
            /\ (graphPane'.threw.primary /\ graphPane'.threw.fallback) =>
                 /\ graphPane'.layout = graphPane.layout
                 /\ graphPane'.initialized = graphPane.initialized
         ]_vars
    /\ [](~graphPane.escaped)

\* The primary layout threw, the fallback layout was applied.
FallbackLayoutWitness ==
    /\ graphPane.call = "fallback"
    /\ graphPane.threw.primary /\ ~graphPane.threw.fallback
    /\ graphPane.layout = FallbackLayout(graphPane.kind)
    /\ graphPane.initialized

-----------------------------------------------------------------------------
(* Properties of the normalizer's "Format 4" and of the records it stores *)

\* The response is an object that reaches the last branch: it is no array and
\* has no array under `interactions`.
UnrecognizedObject(response) ==
    /\ response.t = "obj"
    /\ ~IsArray(Get(response, "interactions"))

ArrayFields(response) == {k \in DOMAIN response.f : IsArray(response.f[k])}

\* What the normalizer stores for a list it found in the response.
StoredFor(items) == Arr([i \in DOMAIN items |-> validated(items[i])])

\* C14: for an object response without an `interactions` array the list the
\* normalizer stores comes from an array-valued field at least as long as
\* every array-valued field of the response; when every such field is empty
\* no field is used and the placeholder records of the protein are stored.
LongestArrayIsChosen ==
    (/\ pending # Null /\ pending.outcome.ok
     /\ UnrecognizedObject(pending.outcome.value)
     /\ search.pc # "interactions") =>
        LET response == pending.outcome.value
            longest == {k \in ArrayFields(response) :
                           \A h \in ArrayFields(response) :
                               Len(response.f[k].items) >= Len(response.f[h].items)}
        IN  IF \E k \in ArrayFields(response) : response.f[k].items # <<>>
            THEN \E k \in longest : interactionsData = StoredFor(response.f[k].items)
            ELSE interactionsData \in
                     {StoredFor(TP53Fallback), StoredFor(GenericFallback),
                      Arr(fallbackData)}

\* The response carried a list of one under `results` and a list of two under
\* `partners`; the two were stored.
LongestArrayWitness ==
    /\ pending # Null
    /\ pending.outcome =
           Resolved(Obj([results |-> Arr(<<SampleInteraction>>),
                         partners |-> Arr(<<AltInteraction, SampleInteraction>>)]))
    /\ search.pc = "kg"
    /\ interactionsData = StoredFor(<<AltInteraction, SampleInteraction>>)

\* A value that holds something: a text, list or object with content, a
\* number or a boolean.
NonEmpty(v) ==
    CASE v.t \in {"null", "undef", "nan"} -> FALSE
      [] v.t = "str" -> v.s # <<>>
      [] v.t = "arr" -> v.items # <<>>
      [] v.t = "obj" -> DOMAIN v.f # {}
      [] OTHER -> TRUE

\* Each default of the validation step is in place: a record that lacked the
\* field, or carried a falsy value in it, has the default instead. This is
\* what the `||` chains of the validation step establish.
StoredRecordsAreTruthy ==
    (pending # Null /\ search.pc # "interactions") =>
        \A i \in DOMAIN interactionsData.items :
            LET r == interactionsData.items[i]
            IN  /\ DOMAIN r.f = {"protein_id", "protein_name", "score",
                                 "evidence", "is_generated"}
                /\ Truthy(r.f.protein_id) /\ Truthy(r.f.protein_name)
                /\ r.f.score.t \in {"num", "nan"} /\ Truthy(r.f.evidence)
                /\ r.f.is_generated.t = "bool"

\* C15: every record handleInteractionsResponse stores has exactly the fields
\* protein_id, protein_name, score, evidence and is_generated, with a
\* non-empty id, name and evidence, a number as score and a boolean as
\* is_generated, whatever the records of the response looked like.
StoredRecordsAreCanonical ==
    (pending # Null /\ search.pc # "interactions") =>
        \A i \in DOMAIN interactionsData.items :
            LET r == interactionsData.items[i]
            IN  /\ DOMAIN r.f = {"protein_id", "protein_name", "score",
                                 "evidence", "is_generated"}
                /\ NonEmpty(r.f.protein_id) /\ NonEmpty(r.f.protein_name)
                /\ r.f.score.t = "num" /\ NonEmpty(r.f.evidence)
                /\ r.f.is_generated.t = "bool"

-----------------------------------------------------------------------------
(* Overlapping status checks *)

\* C16: responses are applied as they arrive, without a staleness guard:
\* whichever check returned last, its payload is what servicesStatus holds
\* and the spinner is off, also when a check issued later has returned
\* before it or is still in flight.
LastArrivalWins ==
    lastOp = "statusSettled" =>
        /\ servicesStatus = checkServices(statusChecks.last)
        /\ ~statusLoading

\* The panel was closed and reopened while the first check was in flight; the
\* second check returned first, and the first check's payload, arriving
\* last, is what the panel shows.
StaleCheckWitness ==
    /\ lastOp = "statusSettled"
    /\ statusChecks.issued = 2 /\ statusChecks.inflight = {}
    /\ statusChecks.arrived = 1
    /\ servicesStatus = statusChecks.last
    /\ Get(servicesStatus, "redis") = S("error")
    /\ StatusRender = "indicators"

-----------------------------------------------------------------------------
(* The earlier revision of handleInteractionsResponse, which re-attempts *)

\* Number of times `call` was issued by the running handleSearch.
Issued(call) == Cardinality({i \in DOMAIN search.calls : search.calls[i] = call})

\* source.includes("LLM"): a text or a list is searched, anything else has no
\* such method and the call throws a TypeError.
IncludesLLM(source) ==
    IF source.t = "str"
    THEN [threw |-> FALSE, b |-> \E i \in DOMAIN source.s : source.s[i] = "LLM"]
    ELSE IF source.t = "arr"
    THEN [threw |-> FALSE, b |-> \E i \in DOMAIN source.items : source.items[i] = S("LLM")]
    ELSE [threw |-> TRUE, b |-> FALSE]

\* One element of validatedInteractions in the earlier revision.
validatedLLM(interaction) ==
    LET raw == Get(interaction, "score")
        source == Get(interaction, "source")
    IN  Obj([protein_id |->
                 Or(Get(interaction, "protein_id"), Or(Get(interaction, "id"), UnknownId)),
             protein_name |->
                 Or(Get(interaction, "protein_name"),
                    Or(Get(interaction, "name"), S("Unknown Protein"))),
             score |-> IF raw.t \in {"num", "nan"} THEN raw
                       ELSE Or(ParseFloat(raw), Num(500)),
             evidence |-> Or(Get(interaction, "evidence"), Or(source, S("Not specified"))),
             is_llm_generated |-> Bool(Truthy(source) /\ IncludesLLM(source).b)])

CouldNotRetrieve(proteinId) ==
    Message("system", Str(<<"Could not retrieve interaction data for ">>
                          \o TemplateText(proteinId)
                          \o <<". Please try again later.">>))

ErrorFetching(message) ==
    Message("system", Str(<<"Error fetching interaction data: ", message,
                            ". Please try again later.">>))

\* The catch block of the earlier revision: a message, and handleSearch goes
\* on to the knowledge graph.
CatchRetrying(u, message) ==
    KnowledgeGraphStage([u EXCEPT !.messages = Append(@, ErrorFetching(message))])

\* The validation and the three setters, for the list found and the first
\* response.
StoreRetrying(u, items, response) ==
    LET id == Get(Get(u.search.response, "data"), "id")
        kg == Get(response, "knowledge_graph")
        throws == \E i \in DOMAIN items :
                      \/ Nullish(items[i])
                      \/ (Truthy(Get(items[i], "source"))
                            /\ IncludesLLM(Get(items[i], "source")).threw)
    IN  IF throws THEN CatchRetrying(u, "TypeError")
        ELSE KnowledgeGraphStage([u EXCEPT
                 !.interactionsData = Arr([i \in DOMAIN items |-> validatedLLM(items[i])]),
                 !.search.origin.interactionsData = From(id, "interactions"),
                 !.knowledgeGraphData =
                     IF Truthy(response) /\ Truthy(kg) THEN kg ELSE @,
                 !.search.origin.knowledgeGraphData =
                     IF Truthy(response) /\ Truthy(kg)
                     THEN From(id, "interactions") ELSE @,
                 !.activeTab = 1])

\* The first getProteinInteractions has settled: with interactions they are
\* stored; with none setIsLoading(true) and the 5 s wait begins.
FirstInteractionsSettled(u, outcome) ==
    IF ~outcome.ok THEN CatchRetrying(u, "Network Error")
    ELSE LET found == processedInteractions(outcome.value)
         IN  IF Len(found) = 0
             THEN [u EXCEPT !.isLoading = TRUE, !.search.pc = "retryDelay"]
             ELSE StoreRetrying(u, found, outcome.value)

\* The 5 s have passed: the second getProteinInteractions is issued.
RetryDelayElapsed(u) ==
    [u EXCEPT !.search.pc = "retry",
              !.search.calls = Append(@, "interactions")]

\* The list a second response is read for: an array, or an object's
\* `interactions` array.
SecondInteractions(secondResponse) ==
    IF Truthy(secondResponse) /\ IsArray(secondResponse)
    THEN secondResponse.items
    ELSE IF /\ Truthy(secondResponse)
            /\ Truthy(Get(secondResponse, "interactions"))
            /\ IsArray(Get(secondResponse, "interactions"))
    THEN Get(secondResponse, "interactions").items
    ELSE <<>>

\* Mutation: a second response without interactions starts another wait.
SecondInteractionsSettledAgain(u, first, outcome) ==
    LET found == IF outcome.ok THEN SecondInteractions(outcome.value) ELSE <<>>
    IN  IF Len(found) = 0
        THEN [u EXCEPT !.search.pc = "retryDelay"]
        ELSE StoreRetrying([u EXCEPT !.isLoading = FALSE], found, first)

\* The second getProteinInteractions has settled: its catch and finally, the
\* message when there is still no interaction, then the validation.
SecondInteractionsSettled(u, first, outcome) ==
    LET id == Get(Get(u.search.response, "data"), "id")
        found == IF outcome.ok THEN SecondInteractions(outcome.value) ELSE <<>>
        done == [u EXCEPT !.isLoading = FALSE,
                          !.messages = IF Len(found) = 0
                                       THEN Append(@, CouldNotRetrieve(id)) ELSE @]
    IN  StoreRetrying(done, found, first)

\* Outcomes of the second request.
RetryOutcomes ==
    {Rejected, Resolved(Null), Resolved(Arr(<<>>)),
     Resolved(Arr(<<SampleInteraction>>)), Resolved(Arr(<<Null>>)),
     Resolved(Obj([interactions |-> Arr(<<AltInteraction>>)])),
     Resolved(Obj([results |-> Arr(<<SampleInteraction>>)]))}

FirstInteractionsArrive ==
    /\ search.pc = "interactions"
    /\ pending # Null
    /\ Commit(FirstInteractionsSettled(UI, pending.outcome), "interactions")

RetryDelayElapses ==
    /\ search.pc = "retryDelay"
    /\ Commit(RetryDelayElapsed(UI), "retryDelay")

SecondInteractionsArrive ==
    /\ search.pc = "retry"
    /\ \E o \in RetryOutcomes :
          Commit(SecondInteractionsSettled(UI, pending.outcome.value, o), "retry")

NextRetry ==
    \/ FirstInteractionsArrive
    \/ RetryDelayElapses
    \/ SecondInteractionsArrive
    \/ KnowledgeGraphSettles

\* The earlier revision from the point where handleSearch awaits
\* handleInteractionsResponse; handleSearch is the same in both revisions.
SpecRetry == InitNorm /\ [][NextRetry]_vars

\* C17: the interactions request is issued at most twice by one
\* handleInteractionsResponse call, every other request at most once; the
\* second interactions request is issued only by the step that ends the wait,
\* and the wait is entered only when the first response held no interaction.
SingleDelayedRetry ==
    /\ [](/\ Issued("interactions") <= 2
          /\ Issued("chat") <= 1
          /\ Issued("structure") <= 1
          /\ Issued("knowledge-graph") <= 1
          /\ search.pc \in {"retryDelay", "retry"} =>
                /\ pending.outcome.ok
                /\ processedInteractions(pending.outcome.value) = <<>>)
    /\ [][(search.pc # "idle" /\ search'.pc # "idle"
             /\ search'.calls # search.calls) =>
            \/ /\ search.pc = "retryDelay" /\ lastOp' = "retryDelay"
               /\ search'.calls = Append(search.calls, "interactions")
               /\ Issued("interactions") = 1
            \/ /\ search.pc \in {"interactions", "retry"}
               /\ search'.calls = Append(search.calls, "knowledge-graph")
         ]_vars

\* The first response held no interaction; after the wait the second request
\* returned a list, which was stored.
SingleRetryWitness ==
    /\ search.pc = "kg" /\ lastOp = "retry"
    /\ search.calls = <<"chat", "interactions", "interactions", "knowledge-graph">>
    /\ pending.outcome = Resolved(Arr(<<>>))
    /\ interactionsData = Arr(<<validatedLLM(SampleInteraction)>>)

\* In the current revision no request is issued twice by one handleSearch.
EachRequestIssuedOnce ==
    /\ Issued("chat") <= 1
    /\ Issued("structure") <= 1
    /\ Issued("interactions") <= 1
    /\ Issued("knowledge-graph") <= 1

-----------------------------------------------------------------------------
(* The session identifier *)

\* C18: sessionId keeps the value drawn at mount, and every chat request
\* posted so far carried it as its session_id: a step that starts a search
\* posts the sessionId, and no other session_id was ever posted.
OneSessionIdentifier ==
    /\ [][sessionId' = sessionId]_vars
    /\ [][(search.pc = "idle" /\ search'.pc = "chat") =>
              sessionId \in search'.sessions]_vars
    /\ [](search.sessions \subseteq {sessionId})
    /\ [](sessionId \in SessionIds)

\* The second chat request of a session is in flight; it and the first one
\* carried the uuid of the mount.
SecondRequestSameSession ==
    /\ search.pc = "chat" /\ search.count = 2
    /\ sessionId = S("uuid-2")
    /\ search.sessions = {S("uuid-2")}

-----------------------------------------------------------------------------
(* One search at a time *)

\* C19: at most one handleSearch is in flight: a search starts only while no
\* search is waiting for a request and isLoading is false, it sets isLoading,
\* and isLoading stays true for as long as the search is in flight, which
\* keeps the input, the Send button and the chips out of reach.
OneSearchAtATime ==
    /\ [][search'.count # search.count =>
            /\ search.pc = "idle" /\ ~isLoading
            /\ lastOp' \in {"submit", "followUp"}
            /\ search'.count = search.count + 1
            /\ search'.pc = "chat" /\ isLoading']_vars
    /\ [](search.pc # "idle" => isLoading)

\* A chip was clicked after the first search had ended: the second search is
\* in flight, alone.
SecondSearchWitness ==
    /\ lastOp = "followUp" /\ search.count = 2
    /\ search.pc = "chat" /\ isLoading

-----------------------------------------------------------------------------
(* Whose data the panes show *)

\* The pane has data to show: a structure, a non-empty interaction list, a
\* knowledge graph.
HasData(pane) ==
    CASE pane = "structureData" -> ~Nullish(structureData)
      [] pane = "interactionsData" ->
             IsArray(interactionsData) /\ interactionsData.items # <<>>
      [] pane = "knowledgeGraphData" -> ~Nullish(knowledgeGraphData)

Panes == {"structureData", "interactionsData", "knowledgeGraphData"}

\* The data of the pane was obtained for the protein on display.
BelongsToActive(pane) ==
    (HasData(pane) /\ search.origin[pane] # Null) =>
        search.origin[pane].for = activeProtein

\* C20: in every reachable state the structure, the interactions and the
\* knowledge graph on display were obtained for the active protein.
DataBelongsToActiveProtein == \A pane \in Panes : BelongsToActive(pane)

\* Between two searches the panes do show the data of the active protein:
\* once handleSearch has returned, every pane was set for the protein it
\* named, or cleared.
DataBelongsWhenIdle ==
    search.pc = "idle" => \A pane \in Panes : BelongsToActive(pane)

-----------------------------------------------------------------------------
(* The tab a protein search ends on *)

\* This step ends a search whose reply named a protein.
ProteinSearchEnds ==
    search.pc # "idle" /\ search'.pc = "idle" /\ search'.result = "protein"

\* The reply carries a knowledge graph as its visualization.
ReplyShowsGraph(r) ==
    /\ Truthy(Get(r, "visualization_data"))
    /\ Get(r, "visualization_type") = S("knowledge_graph")

\* C21: when a search with protein data ends, the query text decides the tab
\* last: a query that mentions 'interaction' or 'network' ends on tab 1, also
\* when the reply's visualization is a knowledge graph; otherwise a query
\* that mentions 'graph' ends on tab 2; otherwise the tab is the one the last
\* follow-up step set: 2 for a knowledge graph in the reply, 1 when the step
\* is the return of handleInteractionsResponse, and else the tab as it was.
TabDecidedByQueryLast ==
    [][ProteinSearchEnds =>
          LET q == search.searchQuery
          IN  IF Mentions(q, InteractionChunks) THEN activeTab' = 1
              ELSE IF Mentions(q, GraphChunks) THEN activeTab' = 2
              ELSE IF ReplyShowsGraph(search.response) THEN activeTab' = 2
              ELSE IF search.pc = "interactions" THEN activeTab' = 1
              ELSE activeTab' = activeTab]_vars

\* The query asked for interactions, the reply carried a knowledge graph as
\* its visualization: the search has ended on the interactions tab.
QueryOverridesReplyWitness ==
    /\ search.pc = "idle" /\ search.result = "protein"
    /\ lastOp = "interactions"
    /\ messages[Len(messages) - 1].content = Str(<<"Show interactions for", " ", "P04637">>)
    /\ knowledgeGraphData = SampleGraph
    /\ search.origin.knowledgeGraphData = From(S("Q9"), "chat")
    /\ activeTab = 1

-----------------------------------------------------------------------------
(* Replies without protein data *)

\* response.data && response.data.id
HasProteinData(r) == Truthy(Get(r, "data")) /\ Truthy(Get(Get(r, "data"), "id"))

\* C22: when the chat request is answered and handleSearch holds no reply
\* with protein data afterwards, the search has ended without a follow-up
\* request and the protein, its data, the three panes' data and the tab are
\* as they were; one message was appended, the suggestions were set and
\* isLoading is false.
PlainReplyKeepsPanes ==
    [][(search.pc = "chat" /\ lastOp' = "chatResolved"
          /\ ~HasProteinData(search'.response)) =>
            /\ search'.pc = "idle"
            /\ search'.calls = <<>>
            /\ UNCHANGED VisualizationState
            /\ UNCHANGED <<query, sessionId>>
            /\ Len(messages') = Len(messages) + 1
            /\ followUpSuggestions' # <<>>
            /\ ~isLoading']_vars

\* A second search was answered with the backend's suggestion and no protein
\* data while the protein of the first search is on display.
PlainReplyWitness ==
    /\ lastOp = "chatResolved" /\ search.pc = "idle"
    /\ search.result = "plain" /\ search.count = 2
    /\ followUpSuggestions = << <<"Tell me more">> >>
    /\ Truthy(activeProtein) /\ ~Nullish(structureData)
    /\ activeTab = 1

-----------------------------------------------------------------------------
(* The knowledge-graph request raced against its 15 s timer *)

\* The two promises of Promise.race([knowledgeGraphPromise, timeoutPromise]).
\* The one that settles first resumes handleSearch; the other one stays
\* behind (the request is not cancelled, the timer is not cleared) and is
\* kept in `pending`, with the number of the search that started it, until
\* it settles.
Loser(kind) == [search |-> search.count, kind |-> kind]

StatusUnchanged ==
    UNCHANGED <<servicesStatus, statusLoading, isStatusPanelVisible,
                statusChecks, graphPane>>

\* getKnowledgeGraph settles before the timer fires.
GraphRequestWins ==
    /\ search.pc = "kg"
    /\ \E o \in KnowledgeGraphOutcomes \ {TimedOut} :
          CommitUI(KnowledgeGraphSettled(UI, o), "knowledgeGraph")
    /\ pending' = pending \cup {Loser("timer")}
    /\ StatusUnchanged

\* The timer fires before getKnowledgeGraph settles: the race rejects.
GraphTimerWins ==
    /\ search.pc = "kg"
    /\ CommitUI(KnowledgeGraphSettled(UI, TimedOut), "graphTimeout")
    /\ pending' = pending \cup {Loser("request")}
    /\ StatusUnchanged

\* Mutation: the response of an abandoned request is stored when it arrives.
LoserSettlesApplied ==
    \E e \in pending :
        /\ pending' = pending \ {e}
        /\ lastOp' = IF e.kind = "request" THEN "lateGraph" ELSE "lateTimer"
        /\ knowledgeGraphData' = IF e.kind = "request" THEN SampleGraph
                                 ELSE knowledgeGraphData
        /\ UNCHANGED <<query, messages, activeProtein, proteinData, structureData,
                       interactionsData, isLoading,
                       followUpSuggestions, activeTab, search, viewerState,
                       sessionId>>
        /\ StatusUnchanged

\* The promise that lost a race settles: the race has settled already, so
\* its reaction does nothing, whatever the request returned.
LoserSettles ==
    \E e \in pending :
        /\ pending' = pending \ {e}
        /\ lastOp' = IF e.kind = "request" THEN "lateGraph" ELSE "lateTimer"
        /\ UNCHANGED <<query, messages, activeProtein, proteinData, structureData,
                       interactionsData, knowledgeGraphData, isLoading,
                       followUpSuggestions, activeTab, search, viewerState,
                       sessionId>>
        /\ StatusUnchanged

\* The user has typed a query; later searches start from the chips.
InitRace ==
    /\ query = <<"tp53">>
    /\ messages = <<WelcomeMessage>>
    /\ activeProtein = Null
    /\ proteinData = Null
    /\ structureData = Null
    /\ interactionsData = Arr(<<>>)
    /\ knowledgeGraphData = Null
    /\ isLoading = FALSE
    /\ followUpSuggestions = <<>>
    /\ activeTab = 0
    /\ search = IdleSearch(0)
    /\ pending = {}
    /\ viewerState = ViewerEffect(Null, Null)
    /\ servicesStatus = Obj(StatusInitial)
    /\ statusLoading = TRUE
    /\ isStatusPanelVisible = FALSE
    /\ statusChecks = NoStatusChecks
    /\ sessionId = S("uuid-1")
    /\ graphPane = NoGraphPane
    /\ lastOp = "setQuery"

NextRace ==
    \/ Submit
    \/ FollowUpClick
    \/ ChatSettles
    \/ StructureSettles
    \/ InteractionsSettle
    \/ GraphRequestWins
    \/ GraphTimerWins
    \/ LoserSettles

SpecRace == InitRace /\ [][NextRace]_vars

\* C23: a race is started by the knowledge-graph step alone, and what
\* arrives from a request the timer has beaten changes neither
\* knowledgeGraphData nor any other state of the component, also when a later
\* search is waiting for its own knowledge graph at that moment.
LateGraphResponseIgnored ==
    [][/\ pending' # pending /\ pending' \cap pending = pending =>
            search.pc = "kg" /\ lastOp' \in {"knowledgeGraph", "graphTimeout"}
       /\ lastOp' \in {"lateGraph", "lateTimer"} =>
            UNCHANGED <<query, messages, activeProtein, proteinData,
                        structureData, interactionsData, knowledgeGraphData,
                        isLoading, followUpSuggestions, activeTab, search,
                        viewerState>>]_vars

\* The request of the first search, beaten by its timer, has answered while
\* the second search waits for its own knowledge graph.
LateGraphResponseWitness ==
    /\ lastOp = "lateGraph"
    /\ search.pc = "kg" /\ search.count = 2
    /\ Nullish(knowledgeGraphData)
    /\ pending = {}

-----------------------------------------------------------------------------
(* The structure pane: unavailable structures and AlphaFold ids *)

\* The structure data names no viewer URL and no id of an entry.
NamesNoEntry(structure) ==
    /\ structure.t = "obj"
    /\ ~Truthy(Get(structure, "viewer_url")) /\ ~Truthy(Get(structure, "pdb_id"))
    /\ ~Truthy(Get(structure, "alphafold_id"))
    /\ ~Truthy(Get(structure, "uniprot_id"))

\* C24: with a protein selected and structure data of status 'unavailable'
\* that names no viewer URL and no id, the pane is in its error state: the
\* error is the message of the structure data, or the default text, and there
\* is no viewer URL.
UnavailableStructureShowsError ==
    (/\ EffectHasRun /\ Truthy(activeProtein)
     /\ NamesNoEntry(structureData)
     /\ Get(structureData, "status") = S("unavailable")) =>
        /\ ~viewerState.loading
        /\ viewerState.error =
               Or(Get(structureData, "message"),
                  S("No structure data available for this protein"))
        /\ viewerState.viewerUrl = Null

\* The seed data's predicted-model id, AF-<accession>-F1.
SeedAlphaFoldId == Str(<<"AF", "-", "P38398", "-", "F1">>)

\* C25: for structure data whose predicted-model id is AF-P38398-F1, and
\* which names no viewer URL and no PDB id, the viewer URL is the AlphaFold
\* entry of the accession P38398.
AlphaFoldIdGivesAccessionUrl ==
    (/\ EffectHasRun /\ Truthy(activeProtein)
     /\ structureData.t = "obj"
     /\ ~Truthy(Get(structureData, "viewer_url"))
     /\ ~Truthy(Get(structureData, "pdb_id"))
     /\ Get(structureData, "alphafold_id") = SeedAlphaFoldId) =>
        viewerState.viewerUrl =
            Str(<<"https://alphafold.ebi.ac.uk/entry/", "P38398">>)

-----------------------------------------------------------------------------
(* InteractionNetworkVisualizer: the elements memo *)

\* Length of the interaction lists the pane is given.
MaxInteractors == 3

\* An interaction with the displayed protein itself.
SelfInteraction ==
    Obj([protein_id |-> S("P04637"), protein_name |-> S("TP53"),
         score |-> Num(950), evidence |-> S("database")])

\* An interaction whose id is a number.
NumberedInteraction ==
    Obj([protein_id |-> Num(7), protein_name |-> S("Seven"), score |-> Num(400)])

\* A node and an edge of the element list (the fields that identify them).
NetworkNode(id, type) == [id |-> id, type |-> type]
NetworkEdge(source, target) == [source |-> source, target |-> target]

\* interaction.protein_id || interaction.id || interaction.interactor_id
InteractorId(interaction) ==
    Or(Get(interaction, "protein_id"),
       Or(Get(interaction, "id"), Get(interaction, "interactor_id")))

\* interactions.forEach from item i on: a falsy item, an item without id and,
\* when skipSeen, an id already in seenNodes add nothing.
RECURSIVE ForEachInteraction(_, _, _, _, _)
ForEachInteraction(items, i, proteinId, acc, skipSeen) ==
    IF i > Len(items) THEN acc
    ELSE LET id == InteractorId(items[i])
         IN  IF ~Truthy(items[i]) \/ ~Truthy(id) \/ (skipSeen /\ id \in acc.seenNodes)
             THEN ForEachInteraction(items, i + 1, proteinId, acc, skipSeen)
             ELSE ForEachInteraction(items, i + 1, proteinId,
                      [nodes |-> Append(acc.nodes, NetworkNode(id, "interactor")),
                       edges |-> Append(acc.edges, NetworkEdge(proteinId, id)),
                       seenNodes |-> acc.seenNodes \cup {id}],
                      skipSeen)

NoElements == [nodes |-> <<>>, edges |-> <<>>]

\* The memo: [] when it skips or an exception reaches its catch block,
\* otherwise the main node, the interactor nodes and their edges.
ElementsMemo(proteinId, interactions, skipSeen) ==
    IF NetworkMemoSkips(proteinId, interactions)
       \/ NetworkMemoThrows(proteinId, interactions)
    THEN NoElements
    ELSE LET all == ForEachInteraction(interactions.items, 1, proteinId,
                        [nodes |-> <<NetworkNode(proteinId, "main")>>,
                         edges |-> <<>>, seenNodes |-> {proteinId}],
                        skipSeen)
         IN  [nodes |-> all.nodes, edges |-> all.edges]

\* Mutation: the memo without its `seenNodes.has(interactorId)` test.
elementsKeepingDuplicates(proteinId, interactions) ==
    ElementsMemo(proteinId, interactions, FALSE)

elements(proteinId, interactions) == ElementsMemo(proteinId, interactions, TRUE)

\* Interaction lists of the backend, of up to MaxInteractors records.
BackendInteractions ==
    {Arr(a) : a \in SeqsUpTo({SampleInteraction, AltInteraction,
                              ListEvidenceInteraction, SelfInteraction,
                              NumberedInteraction}, MaxInteractors)}

\* A search for a protein has run to its end with tab 1 on display: the
\* interactions are what handleInteractionsResponse stored for the backend's
\* list; the pane has not rendered yet.
InitNetwork ==
    \E id \in {S("P04637"), S("Q9"), Num(7)}, body \in BackendInteractions :
        /\ activeProtein = id
        /\ interactionsData =
               handleInteractionsResponse(id, Resolved(body)).interactionsData
        /\ proteinData = Obj([id |-> id, structure |-> SampleStructure])
        /\ structureData = SampleStructure
        /\ knowledgeGraphData = Null
        /\ query = <<>>
        /\ messages = <<WelcomeMessage, Message("user", S("tp53")),
                        Message("system", S("reply"))>>
        /\ isLoading = FALSE
        /\ followUpSuggestions = ProteinSuggestions(id)
        /\ activeTab = 1
        /\ search = [IdleSearch(1) EXCEPT
                       !.result = "protein", !.sessions = {S("uuid-1")},
                       !.origin = [NoOrigin EXCEPT
                                     !.structureData = From(id, "chat"),
                                     !.interactionsData = From(id, "interactions")]]
        /\ pending = Null
        /\ viewerState = Unmounted
        /\ servicesStatus = Obj(StatusInitial)
        /\ statusLoading = TRUE
        /\ isStatusPanelVisible = FALSE
        /\ statusChecks = NoStatusChecks
        /\ sessionId = S("uuid-1")
        /\ graphPane = NoGraphPane
        /\ lastOp = "interactions"

\* The pane renders: the memo computes the elements from its props.
NetworkRenders ==
    /\ graphPane = NoGraphPane
    /\ graphPane' = elements(activeProtein, interactionsData)
    /\ lastOp' = "elements"
    /\ UNCHANGED <<query, messages, activeProtein, proteinData, structureData,
                   interactionsData, knowledgeGraphData, isLoading,
                   followUpSuggestions, activeTab, search, pending, viewerState,
                   servicesStatus, statusLoading, isStatusPanelVisible,
                   statusChecks, sessionId>>

SpecNetwork == InitNetwork /\ [][NetworkRenders]_vars

\* The ids of the interactions the pane was given.
InteractorIds ==
    {InteractorId(interactionsData.items[i]) : i \in DOMAIN interactionsData.items}

-----------------------------------------------------------------------------
(* statusChecker.checkAllServices: the two status requests *)

\* Mutation: the failure of the second request leaves checkAllServices as a
\* rejection.
fallbackSettledRethrows(outcome) ==
    IF outcome.ok THEN Resolved(outcome.value) ELSE Rejected

\* How checkAllServices settles once its second request, GET /status, has
\* settled: with the body, or with the all-'error' object of its catch block.
fallbackSettled(outcome) ==
    IF outcome.ok THEN Resolved(outcome.value) ELSE Resolved(CheckerFailed)

\* checkServices once checkAllServices has settled: its catch block marks
\* every service 'error' for a rejection as for a body without entries.
checkServicesSettled(returned) ==
    IF returned.ok THEN checkServices(returned.value)
    ELSE AllServicesError("Network Error")

\* A request of a check: its path and its outcome.
StatusRequest(path, outcome) == [path |-> path, outcome |-> outcome]

StatusOutcomes == {Rejected} \cup {Resolved(p) : p \in StatusPayloads}

\* The panel has been mounted hidden and no check was issued. pending holds
\* the checks whose first request has failed; statusChecks also records the
\* requests of the check that returned last, and how it settled.
InitChecker ==
    /\ query = <<>>
    /\ messages = <<WelcomeMessage>>
    /\ activeProtein = Null
    /\ proteinData = Null
    /\ structureData = Null
    /\ interactionsData = Arr(<<>>)
    /\ knowledgeGraphData = Null
    /\ isLoading = FALSE
    /\ followUpSuggestions = <<>>
    /\ activeTab = 0
    /\ search = IdleSearch(0)
    /\ pending = {}
    /\ viewerState = ViewerEffect(Null, Null)
    /\ servicesStatus = Obj(StatusInitial)
    /\ statusLoading = TRUE
    /\ isStatusPanelVisible = FALSE
    /\ statusChecks = [issued |-> 0, inflight |-> {}, arrived |-> 0, last |-> Undef,
                       requests |-> <<>>, returned |-> Undef]
    /\ sessionId = S("uuid-1")
    /\ graphPane = NoGraphPane
    /\ lastOp = "mount"

CheckerFrame ==
    UNCHANGED <<query, messages, activeProtein, proteinData, structureData,
                interactionsData, knowledgeGraphData, isLoading,
                followUpSuggestions, activeTab, search, viewerState,
                sessionId, graphPane, isStatusPanelVisible>>

\* checkAllServices of check id settles after the given requests and
\* checkServices runs on: try or catch, then finally.
CheckReturns(id, requests, returned) ==
    /\ servicesStatus' = checkServicesSettled(returned)
    /\ statusLoading' = FALSE
    /\ statusChecks' = [statusChecks EXCEPT
                           !.inflight = @ \ {id}, !.arrived = id,
                           !.last = returned.value,
                           !.requests = requests, !.returned = returned]
    /\ lastOp' = "statusSettled"
    /\ CheckerFrame

\* GET /api/status of a check succeeds: its body is returned.
ApiStatusResolves ==
    \E id \in statusChecks.inflight \ pending, p \in StatusPayloads :
        /\ CheckReturns(id, <<StatusRequest("/api/status", Resolved(p))>>,
                        Resolved(p))
        /\ UNCHANGED pending

\* GET /api/status of a check fails: the inner catch requests GET /status.
ApiStatusRejects ==
    \E id \in statusChecks.inflight \ pending :
        /\ pending' = pending \cup {id}
        /\ lastOp' = "statusFallback"
        /\ UNCHANGED <<servicesStatus, statusLoading, statusChecks>>
        /\ CheckerFrame

\* GET /status of a check settles.
FallbackStatusSettles ==
    \E id \in statusChecks.inflight \cap pending, outcome \in StatusOutcomes :
        /\ CheckReturns(id, <<StatusRequest("/api/status", Rejected),
                              StatusRequest("/status", outcome)>>,
                        fallbackSettled(outcome))
        /\ pending' = pending \ {id}

NextChecker ==
    \/ OpenStatusPanel
    \/ CloseStatusPanel
    \/ RefreshStatus
    \/ ApiStatusResolves
    \/ ApiStatusRejects
    \/ FallbackStatusSettles

SpecChecker == InitChecker /\ [][NextChecker]_vars

\* C27: a check that has settled did not reject; it asked /api/status first
\* and /status only after that had failed, it returned the body of the first
\* request that succeeded, or, both having failed, an object marking all five
\* services 'error'; and the panel has left its loading state.
CheckerNeverRejects ==
    lastOp = "statusSettled" =>
        LET requests == statusChecks.requests
            returned == statusChecks.returned
        IN  /\ returned.ok
            /\ ~statusLoading
            /\ Len(requests) \in {1, 2}
            /\ requests[1].path = "/api/status"
            /\ Len(requests) = 1 =>
                   /\ requests[1].outcome.ok
                   /\ returned.value = requests[1].outcome.value
            /\ Len(requests) = 2 =>
                   /\ ~requests[1].outcome.ok
                   /\ requests[2].path = "/status"
                   /\ requests[2].outcome.ok =>
                          returned.value = requests[2].outcome.value
                   /\ ~requests[2].outcome.ok =>
                          \A svc \in Services : Get(returned.value, svc) = S("error")

\* Both requests of a check failed and the panel shows five red indicators.
BothStatusRequestsFailWitness ==
    /\ lastOp = "statusSettled"
    /\ Len(statusChecks.requests) = 2
    /\ ~statusChecks.requests[2].outcome.ok
    /\ StatusRender = "indicators"
    /\ \A svc \in Services : Indicator(svc) = "bg-red-500"

-----------------------------------------------------------------------------
(* The is_generated flag of the stored interactions *)

\* The records the backend's response held, when the request succeeded.
BackendRecords ==
    IF pending.outcome.ok THEN processedInteractions(pending.outcome.value) ELSE <<>>

\* The stored list is one of the client's own: the response held no record,
\* or the catch block ran.
Fabricated ==
    \/ Len(BackendRecords) = 0
    \/ TryInteractions(pending.proteinId, pending.outcome).threw

\* C28: once handleInteractionsResponse has stored a list, every record of a
\* list the client made up is flagged is_generated = true, and every record
\* taken from the response carries the response's flag, false when absent.
FabricatedRecordsAreFlagged ==
    lastOp = "interactions" =>
        \A i \in DOMAIN interactionsData.items :
            Get(interactionsData.items[i], "is_generated") =
                IF Fabricated THEN Bool(TRUE)
                ELSE Bool(Truthy(Get(BackendRecords[i], "is_generated")))

-----------------------------------------------------------------------------
(* The order of the requests of one search *)

\* The place of a request in handleSearch.
CallRank(call) ==
    CASE call = "chat" -> 0
      [] call = "structure" -> 1
      [] call = "interactions" -> 2
      [] call = "knowledge-graph" -> 3

\* The request handleSearch is waiting for.
AwaitedCall ==
    CASE search.pc = "chat" -> "chat"
      [] search.pc = "structure" -> "structure"
      [] search.pc = "interactions" -> "interactions"
      [] search.pc = "kg" -> "knowledge-graph"

\* C29: the requests of a search are issued in the order chat, structure,
\* interactions, knowledge graph, each at most once; the request the search
\* waits for is the one issued last, so every earlier one has settled; and a
\* knowledge-graph request left behind by the timeout belongs to a search
\* that has issued all its requests and ended.
FollowUpsOneByOne ==
    /\ \A i, j \in DOMAIN search.calls :
           i < j => CallRank(search.calls[i]) < CallRank(search.calls[j])
    /\ search.pc # "idle" =>
           /\ search.calls # <<>>
           /\ search.calls[Len(search.calls)] = AwaitedCall
    /\ \A e \in pending :
           e.kind = "request" => (e.search < search.count \/ search.pc = "idle")

\* A search waits for its knowledge graph, its third follow-up request, while
\* the request the previous search abandoned is still unanswered.
ThirdFollowUpWitness ==
    /\ search.pc = "kg"
    /\ search.calls = <<"chat", "structure", "interactions", "knowledge-graph">>
    /\ [search |-> 1, kind |-> "request"] \in pending
    /\ search.count = 2

-----------------------------------------------------------------------------
(* The follow-up suggestions a search leaves *)

\* follow_up_suggestions of a reply: absent, empty, or one or two questions.
BackendSuggestions ==
    Opt("follow_up_suggestions",
        {Arr(<<>>), Arr(<<S("Tell me more")>>),
         Arr(<<S("Tell me more"), S("Which drugs?")>>)})

\* Replies of the chat endpoint: without protein data, with data that names
\* no protein, and with a protein and every way of embedding its data.
SuggestionReplies ==
    {Obj([message |-> S("reply")] @@ d @@ f) :
        d \in Opt("data", {EmptyObj}), f \in BackendSuggestions}
    \cup
    {Obj([message |-> S("reply"), data |-> Obj(("id" :> id) @@ p[1])] @@ p[2] @@ f) :
        id \in ProteinIds, p \in ProteinShapes, f \in BackendSuggestions}

\* The first search has been submitted from the mount state and waits for
\* the chat reply; pending holds the outcome the chat request will have.
InitSuggest ==
    /\ pending \in {Rejected, Resolved(Null)}
                   \cup {Resolved(r) : r \in SuggestionReplies}
    /\ query = <<>>
    /\ messages = <<WelcomeMessage, Message("user", S("tp53"))>>
    /\ activeProtein = Null
    /\ proteinData = Null
    /\ structureData = Null
    /\ interactionsData = Arr(<<>>)
    /\ knowledgeGraphData = Null
    /\ isLoading = TRUE
    /\ followUpSuggestions = <<>>
    /\ activeTab = 0
    /\ search = [IdleSearch(1) EXCEPT
                   !.pc = "chat", !.searchQuery = <<"tp53">>,
                   !.calls = <<"chat">>, !.sessions = {S("uuid-1")}]
    /\ viewerState = ViewerEffect(Null, Null)
    /\ servicesStatus = Obj(StatusInitial)
    /\ statusLoading = TRUE
    /\ isStatusPanelVisible = FALSE
    /\ statusChecks = NoStatusChecks
    /\ sessionId = S("uuid-1")
    /\ graphPane = NoGraphPane
    /\ lastOp = "submit"

\* The chat request settles with the pending outcome.
ChatArrives ==
    /\ search.pc = "chat"
    /\ Commit(ChatSettled(UI, pending),
              IF pending.ok THEN "chatResolved" ELSE "chatRejected")

NextSuggest ==
    \/ ChatArrives
    \/ StructureSettles
    \/ InteractionsSettle
    \/ KnowledgeGraphSettles

SpecSuggest == InitSuggest /\ [][NextSuggest]_vars

\* The suggestions the backend sent, as the chips show them.
SuggestionsOf(reply) ==
    LET sugg == Get(reply, "follow_up_suggestions")
    IN  IF Truthy(sugg) /\ HasLength(sugg)
        THEN [i \in DOMAIN sugg.items |-> sugg.items[i].s]
        ELSE <<>>

\* C30: when the search has ended there are suggestions: after a failure the
\* list of the catch block; after a reply with protein data the four
\* questions about its id, whatever the backend suggested; otherwise the
\* backend's suggestions if it sent any, and the default list if not.
SuggestionsAfterSearch ==
    search.pc = "idle" =>
        /\ followUpSuggestions # <<>>
        /\ followUpSuggestions =
               IF ~pending.ok \/ Nullish(pending.value) THEN ErrorSuggestions
               ELSE IF HasProteinData(pending.value)
               THEN ProteinSuggestions(Get(Get(pending.value, "data"), "id"))
               ELSE IF SuggestionsOf(pending.value) # <<>>
               THEN SuggestionsOf(pending.value)
               ELSE DefaultSuggestions

\* A reply with protein data and two suggestions of the backend has left the
\* four questions about the protein.
BackendSuggestionsIgnoredWitness ==
    /\ search.pc = "idle" /\ search.result = "protein"
    /\ pending.ok /\ Len(SuggestionsOf(pending.value)) = 2
    /\ Len(followUpSuggestions) = 4
    /\ followUpSuggestions = ProteinSuggestions(activeProtein)

=============================================================================
